---- MODULE Spec2Model ----
(***************************************************************************)
(* A model of yt-chill's local persistence layer and of the search         *)
(* operations that use it: the TTL cache (storage/cache.rs), the watch     *)
(* history (storage/history.rs), the subscription store                    *)
(* (storage/subscriptions.rs), the cached search operations                *)
(* (core/youtube.rs), their parsers and cache keys, and the feed and Play  *)
(* flows of main.rs.                                                       *)
(***************************************************************************)
EXTENDS Integers, Sequences, FiniteSets, TLC

(***************************************************************************)
(* Bounds of the model.                                                    *)
(***************************************************************************)
MaxM == 2          \* largest configured max_entries tried
MaxClock == 1      \* seconds the clock advances by in the history specification
MaxTtls == 1       \* ttl periods the clock advances by in the cache specifications
MaxFetches == 2    \* HTTP fetches made in the cache specification
MaxSubs == 2       \* records add_subscription is let to write

VARIABLES
    now,           \* Utc::now().timestamp()
    store,         \* the history file
    max_entries,   \* History.max_entries
    entries,       \* History.entries
    ret,           \* the last call made and what it returned
    added,         \* ids passed to add since the history was last empty
    tracked,       \* all of those calls succeeded, with pairwise distinct ids
    cache,         \* the cache directory: the file under each cache key
    fetches,       \* HTTP requests sent so far
    subs_file,     \* the subscription file, subscriptions.txt
    procs,         \* two invocations of the program running add_subscription
    finished,      \* those whose write has returned, in the order they finished
    feed,          \* the feed flow of main: where it stands and what it gathered
    pending,       \* the HTTP request a search operation is waiting on, if any
    input,         \* the arguments a pure function is applied to
    reader,        \* a second process inside get_cached: the key and what it read
    play,          \* the Play state of main: the options, the selection, what ran
    app            \* the state machine of main: its options, its state, the states entered

vars == <<now, store, max_entries, entries, ret, added, tracked, cache, fetches,
          subs_file, procs, finished, feed, pending, input, reader, play, app>>

hvars == <<max_entries, entries, added, tracked>>

cvars == <<cache, fetches>>

rvars == <<procs, finished>>

zvars == <<pending, input, reader, play, app>>

ovars == <<subs_file, rvars, feed, zvars>>

(***************************************************************************)
(* Helpers on sequences.                                                   *)
(***************************************************************************)
Min(a, b) == IF a <= b THEN a ELSE b

Take(s, n) == SubSeq(s, 1, Min(n, Len(s)))

RECURSIVE Reverse(_)
Reverse(s) == IF s = <<>> THEN <<>> ELSE Append(Reverse(Tail(s)), Head(s))

RECURSIVE Filter(_, _)
\* the entries of es whose video id is not id, in order
Filter(es, id) ==
    IF es = <<>> THEN <<>>
    ELSE IF Head(es).video.id # id THEN <<Head(es)>> \o Filter(Tail(es), id)
    ELSE Filter(Tail(es), id)

Ids(es) == [i \in 1..Len(es) |-> es[i].video.id]

NoDup(s) == \A i, j \in 1..Len(s) : i # j => s[i] # s[j]

(***************************************************************************)
(* types.rs: Video and HistoryEntry.                                       *)
(***************************************************************************)
VideoFields == {"id", "title", "author", "duration", "views", "published", "thumbnail"}

Vid(id, title) ==
    [id |-> id, title |-> title, author |-> "au", duration |-> "3:45",
     views |-> "1K views", published |-> "", thumbnail |-> ""]

\* the videos a caller may pass; two of them share the id "a"
Videos == {Vid("a", "A"), Vid("a", "A2"), Vid("b", "B"), Vid("c", "C")}

HistoryEntry(video, timestamp) == [video |-> video, timestamp |-> timestamp]

(***************************************************************************)
(* The history file.  Its content is one of: no file, bytes that are not   *)
(* UTF-8, text that is not a JSON list of entries, or a JSON document: a   *)
(* list of objects, each a map from field names to values.                 *)
(***************************************************************************)
Missing == [kind |-> "missing", doc |-> <<>>]
InvalidUtf8 == [kind |-> "bytes", doc |-> <<>>]
Garbage == [kind |-> "garbage", doc |-> <<>>]
Json(doc) == [kind |-> "json", doc |-> doc]

\* #[serde(flatten)]: the video's fields and the timestamp in one object
SerializeEntryDropTimestamp(e) == [k \in VideoFields |-> e.video[k]]

SerializeEntry(e) ==
    [k \in VideoFields \cup {"timestamp"} |->
        IF k = "timestamp" THEN e.timestamp ELSE e.video[k]]

EntryShaped(o) == (VideoFields \cup {"timestamp"}) \subseteq DOMAIN o

DeserializeEntry(o) ==
    [video |-> [k \in VideoFields |-> o[k]], timestamp |-> o["timestamp"]]

\* serde_json::to_string_pretty(&self.entries)
to_string_pretty(es) == [i \in 1..Len(es) |-> SerializeEntry(es[i])]

\* serde_json::from_str::<Vec<HistoryEntry>>(&content).unwrap_or_default()
from_str_or_default(file) ==
    IF file.kind = "json" /\ \A i \in 1..Len(file.doc) : EntryShaped(file.doc[i])
    THEN [i \in 1..Len(file.doc) |-> DeserializeEntry(file.doc[i])]
    ELSE <<>>

(***************************************************************************)
(* History::add, the list it leaves in memory.                             *)
(***************************************************************************)
AddEntriesAtBack(es, video, t, m) ==
    LET l == Append(Filter(es, video.id), HistoryEntry(video, t))
    IN  IF Len(l) > m THEN Take(l, m) ELSE l

AddEntries(es, video, t, m) ==
    LET retained == Filter(es, video.id)
        inserted == <<HistoryEntry(video, t)>> \o retained
    IN  IF Len(inserted) > m THEN Take(inserted, m) ELSE inserted

\* the outcomes of History::save: written, or failed before the file was
\* opened, or failed after fs::write truncated it (a proper prefix of the
\* new content is left, which may end inside a multi-byte character)
SaveOutcomes == {"ok", "err_untouched", "err_partial", "err_cut_char"}

SaveResult(old, es, io) ==
    CASE io = "ok" -> Json(to_string_pretty(es))
      [] io = "err_untouched" -> old
      [] io = "err_partial" -> Garbage
      [] io = "err_cut_char" -> InvalidUtf8

\* History::load on a store holding `file`, from in-memory entries es:
\* what it returns and the entries it leaves
load(file, es) ==
    CASE file.kind = "missing" -> [res |-> "Ok", entries |-> <<>>]
      [] file.kind = "bytes" -> [res |-> "Err", entries |-> es]   \* fs::read_to_string(..)?
      [] OTHER -> [res |-> "Ok", entries |-> from_str_or_default(file)]

\* History::get_all
get_all_from_store(es, file) == from_str_or_default(file)

get_all(es, file) == es

\* a call and what it returned: op(arg, limit) gave res with value val,
\* wrote saying whether it wrote the cache, ran listing the steps of the
\* network path (fetch, extract, parse) it went through
Call(op, arg, limit, res, val, wrote) ==
    [op |-> op, arg |-> arg, limit |-> limit, res |-> res, val |-> val, wrote |-> wrote,
     ran |-> <<>>]

Ret(op, res, val) == Call(op, "", 0, res, val, FALSE)

(***************************************************************************)
(* storage/cache.rs: the TTL cache.                                        *)
(***************************************************************************)
DEFAULT_TTL == 3600

\* the argument (query or channel handle) and the limits the callers pass
Args == {"x"}
Limits == {0, 1, 2}
Kinds == {"video", "channel"}

\* format!("video:{}:{}", query, limit), format!("channel:{}:{}", handle, limit)
LogicalKeyUnseparated(kind, arg, limit) == kind \o ":" \o arg \o ToString(limit)

LogicalKey(kind, arg, limit) == kind \o ":" \o arg \o ":" \o ToString(limit)

\* the hex SHA-256 digest of the logical key, taken as free of collisions
get_cache_key(query) == "sha256(" \o query \o ")"

RECURSIVE Str(_)
\* the string of a text given as the sequence of its characters
Str(text) == IF text = <<>> THEN "" ELSE Head(text) \o Str(Tail(text))

\* the feed flow: the handles subscribed to, and the limit it fetches with
FeedHandles == {<<"a">>, <<"b">>, <<"c">>}
FeedLimit == 5

CacheKeys ==
    {get_cache_key(LogicalKey(k, a, l)) : k \in Kinds, a \in Args, l \in Limits}
    \cup {get_cache_key(LogicalKey("channel", Str(h), FeedLimit)) : h \in FeedHandles}

CacheEntry(data, timestamp, ttl) == [data |-> data, timestamp |-> timestamp, ttl |-> ttl]

NoDoc == [data |-> <<>>, timestamp |-> 0, ttl |-> 0]

\* a cache file: absent, text that does not deserialize, or a JSON object
CMissing == [kind |-> "missing", doc |-> NoDoc]
CGarbage == [kind |-> "garbage", doc |-> NoDoc]
CJson(doc) == [kind |-> "json", doc |-> doc]

SerializeVideoNoThumbnail(v) == [k \in VideoFields \ {"thumbnail"} |-> v[k]]

SerializeVideo(v) == [k \in VideoFields |-> v[k]]

VideoShaped(o) == VideoFields \subseteq DOMAIN o

DeserializeVideo(o) == [k \in VideoFields |-> o[k]]

\* serde_json::to_string(&entry) for CacheEntry<&Vec<Video>>
SerializeCacheEntry(e) ==
    [data |-> [i \in 1..Len(e.data) |-> SerializeVideo(e.data[i])],
     timestamp |-> e.timestamp,
     ttl |-> e.ttl]

\* serde_json::from_str::<CacheEntry<Vec<Video>>>(&content).ok()
DeserializeCacheEntry(file) ==
    IF file.kind = "json" /\ \A i \in 1..Len(file.doc.data) : VideoShaped(file.doc.data[i])
    THEN [ok |-> TRUE,
          entry |-> CacheEntry([i \in 1..Len(file.doc.data) |-> DeserializeVideo(file.doc.data[i])],
                               file.doc.timestamp, file.doc.ttl)]
    ELSE [ok |-> FALSE, entry |-> NoDoc]

ExpiredStrict(entry, t) == t - entry.timestamp >= entry.ttl

\* now - entry.timestamp > entry.ttl as i64
Expired(entry, t) == t - entry.timestamp > entry.ttl

get_cached_serve_expired(file, t) ==
    LET d == DeserializeCacheEntry(file)
    IN  IF file.kind = "missing" \/ ~d.ok
        THEN [some |-> FALSE, data |-> <<>>, file |-> file]
        ELSE [some |-> TRUE, data |-> d.entry.data, file |-> file]

\* get_cached on the file under the key at time t: whether it returns Some,
\* the data, and the file it leaves
get_cached(file, t) ==
    LET d == DeserializeCacheEntry(file)
    IN  IF file.kind = "missing" THEN [some |-> FALSE, data |-> <<>>, file |-> file]
        ELSE IF ~d.ok THEN [some |-> FALSE, data |-> <<>>, file |-> file]
        ELSE IF Expired(d.entry, t)
             THEN [some |-> FALSE, data |-> <<>>, file |-> CMissing]   \* fs::remove_file
        ELSE [some |-> TRUE, data |-> d.entry.data, file |-> file]

\* the outcomes of set_cache: written, failed before the file was opened
\* (ensure_dir, create), or failed after fs::write truncated the file
WriteOutcomes == {"ok", "err_untouched", "err_partial"}

set_cache_keep_old(file, data, t, io) ==
    IF file.kind = "json" THEN file
    ELSE IF io = "ok" THEN CJson(SerializeCacheEntry(CacheEntry(data, t, DEFAULT_TTL)))
    ELSE file

\* set_cache: the file it leaves under the key
set_cache(file, data, t, io) ==
    CASE io = "ok" -> CJson(SerializeCacheEntry(CacheEntry(data, t, DEFAULT_TTL)))
      [] io = "err_untouched" -> file
      [] io = "err_partial" -> CGarbage

(***************************************************************************)
(* core/youtube.rs: fetch, extract, parse.                                 *)
(***************************************************************************)
Has(o, k) == k \in DOMAIN o

\* html_escape::decode_html_entities on the texts the pages below carry
decode_html_entities(s) ==
    CASE s = "Rock &amp; Roll" -> "Rock & Roll"
      [] OTHER -> s

VideoOfNoLive(item) ==
    LET v == item.videoRenderer
    IN  [id |-> v.videoId,
         title |-> IF Has(v, "title") THEN decode_html_entities(v.title) ELSE "",
         author |-> IF Has(v, "longBylineText") THEN v.longBylineText ELSE "",
         duration |-> IF Has(v, "lengthText") THEN v.lengthText ELSE "",
         views |-> IF Has(v, "viewCountText") THEN v.viewCountText ELSE "",
         published |-> IF Has(v, "publishedTimeText") THEN v.publishedTimeText ELSE "",
         thumbnail |-> IF Has(v, "thumbnails") /\ v.thumbnails # <<>>
                       THEN v.thumbnails[Len(v.thumbnails)] ELSE ""]

\* one item of the result list, filter_map's closure of parse_search_results
VideoOf(item) ==
    LET v == item.videoRenderer
    IN  [id |-> v.videoId,
         title |-> IF Has(v, "title") THEN decode_html_entities(v.title) ELSE "",
         author |-> IF Has(v, "longBylineText") THEN v.longBylineText ELSE "",
         duration |-> IF Has(v, "lengthText") THEN v.lengthText ELSE "LIVE",
         views |-> IF Has(v, "viewCountText") THEN v.viewCountText ELSE "",
         published |-> IF Has(v, "publishedTimeText") THEN v.publishedTimeText ELSE "",
         thumbnail |-> IF Has(v, "thumbnails") /\ v.thumbnails # <<>>
                       THEN v.thumbnails[Len(v.thumbnails)] ELSE ""]

VideoAccepted(item) == Has(item, "videoRenderer") /\ Has(item.videoRenderer, "videoId")

TakeThenFilterVideos(items, limit) ==
    LET kept == SelectSeq(Take(items, limit), VideoAccepted)
    IN  [i \in 1..Len(kept) |-> VideoOf(kept[i])]

RECURSIVE FilterMapTakeVideos(_, _)
\* items.iter().filter_map(..).take(limit).collect()
FilterMapTakeVideos(items, limit) ==
    IF limit = 0 \/ items = <<>> THEN <<>>
    ELSE IF VideoAccepted(Head(items))
         THEN <<VideoOf(Head(items))>> \o FilterMapTakeVideos(Tail(items), limit - 1)
         ELSE FilterMapTakeVideos(Tail(items), limit)

\* parse_search_results: data.path_ok says whether the nested path to the
\* item list is there and ends in a list
parse_search_results(data, limit) ==
    IF ~data.path_ok THEN <<>> ELSE FilterMapTakeVideos(data.items, limit)

ChannelHandle(c) ==
    IF Has(c, "subscriberCountText") /\ Has(c, "channelId") THEN "@" \o c.channelId
    ELSE IF Has(c, "channelId") THEN c.channelId
    ELSE ""

ChannelOf(item) ==
    LET c == item.channelRenderer
    IN  [name |-> IF Has(c, "title") THEN decode_html_entities(c.title) ELSE "",
         handle |-> ChannelHandle(c)]

ChannelAccepted(item) ==
    /\ Has(item, "channelRenderer")
    /\ ChannelOf(item).name # ""
    /\ ChannelOf(item).handle # ""

RECURSIVE FilterMapTakeChannels(_, _)
FilterMapTakeChannels(items, limit) ==
    IF limit = 0 \/ items = <<>> THEN <<>>
    ELSE IF ChannelAccepted(Head(items))
         THEN <<ChannelOf(Head(items))>> \o FilterMapTakeChannels(Tail(items), limit - 1)
         ELSE FilterMapTakeChannels(Tail(items), limit)

\* parse_channel_results
parse_channel_results(data, limit) ==
    IF ~data.path_ok THEN <<>> ELSE FilterMapTakeChannels(data.items, limit)

\* what the server may answer to one GET
VideoItem(id, title) ==
    [videoRenderer |->
        [videoId |-> id, title |-> title, longBylineText |-> "au", lengthText |-> "3:45",
         viewCountText |-> "1K views", publishedTimeText |-> "",
         thumbnails |-> <<"small.jpg", "">>]]

LiveItem == [videoRenderer |-> [videoId |-> "c", title |-> "Rock &amp; Roll"]]
NoIdItem == [videoRenderer |-> [title |-> "no id"]]
AdItem == [adSlotRenderer |-> [x |-> "ad"]]
ChannelItem == [channelRenderer |-> [title |-> "Chan", channelId |-> "UC1", subscriberCountText |-> "1K"]]

Html(marker, json_ok, path_ok, items) ==
    [kind |-> "html", marker |-> marker, json_ok |-> json_ok,
     data |-> [path_ok |-> path_ok, items |-> items]]

NoResponse == [kind |-> "transport_error", marker |-> FALSE, json_ok |-> FALSE,
               data |-> [path_ok |-> FALSE, items |-> <<>>]]
Status500 == [kind |-> "http_status", marker |-> FALSE, json_ok |-> FALSE,
              data |-> [path_ok |-> FALSE, items |-> <<>>]]

Pages ==
    { NoResponse, Status500,
      Html(FALSE, FALSE, FALSE, <<>>),
      Html(TRUE, FALSE, FALSE, <<>>),
      Html(TRUE, TRUE, FALSE, <<>>),
      Html(TRUE, TRUE, TRUE, <<AdItem, ChannelItem>>),
      Html(TRUE, TRUE, TRUE, <<VideoItem("a", "A"), AdItem, VideoItem("b", "B"), LiveItem>>),
      Html(TRUE, TRUE, TRUE, <<NoIdItem, LiveItem, VideoItem("a", "A")>>) }

fetch_youtube_html_any_status(page) ==
    CASE page.kind = "transport_error" -> [res |-> "Http", html |-> page]
      [] OTHER -> [res |-> "Ok", html |-> page]

\* fetch_youtube_html
fetch_youtube_html(page) ==
    CASE page.kind = "transport_error" -> [res |-> "Http", html |-> page]
      [] page.kind = "http_status" -> [res |-> "Network", html |-> page]
      [] OTHER -> [res |-> "Ok", html |-> page]

extract_yt_initial_data_lenient(html) ==
    IF html.marker /\ html.json_ok THEN [res |-> "Ok", data |-> html.data]
    ELSE [res |-> "Ok", data |-> [path_ok |-> FALSE, items |-> <<>>]]

\* extract_yt_initial_data
extract_yt_initial_data(html) ==
    IF html.marker /\ html.json_ok THEN [res |-> "Ok", data |-> html.data]
    ELSE [res |-> "YouTubeParse", data |-> html.data]

Outcome(res, val, c, fetched, wrote, ran) ==
    [res |-> res, val |-> val, cache |-> c, fetched |-> fetched, wrote |-> wrote, ran |-> ran]

FetchVideosStrict(c, t, key, limit, page, io, empty_is_error) ==
    LET f == fetch_youtube_html(page)
        x == extract_yt_initial_data(f.html)
        results == parse_search_results(x.data, limit)
    IN  IF f.res # "Ok" THEN Outcome(f.res, <<>>, c, 1, FALSE, <<"fetch">>)
        ELSE IF x.res # "Ok" THEN Outcome(x.res, <<>>, c, 1, FALSE, <<"fetch", "extract">>)
        ELSE IF results = <<>>
             THEN Outcome(IF empty_is_error THEN "NoResults" ELSE "Ok", <<>>, c, 1, FALSE,
                          <<"fetch", "extract", "parse">>)
        ELSE IF io # "ok"
             THEN Outcome("File", <<>>, [c EXCEPT ![key] = set_cache(c[key], results, t, io)],
                          1, FALSE, <<"fetch", "extract", "parse">>)
        ELSE Outcome("Ok", results,
                     [c EXCEPT ![key] = set_cache(c[key], results, t, io)], 1, TRUE,
                     <<"fetch", "extract", "parse">>)

FetchVideosCachingEmpty(c, t, key, limit, page, io, empty_is_error) ==
    LET f == fetch_youtube_html(page)
        x == extract_yt_initial_data(f.html)
        results == parse_search_results(x.data, limit)
    IN  IF f.res # "Ok" THEN Outcome(f.res, <<>>, c, 1, FALSE, <<"fetch">>)
        ELSE IF x.res # "Ok" THEN Outcome(x.res, <<>>, c, 1, FALSE, <<"fetch", "extract">>)
        ELSE IF results = <<>>
             THEN Outcome(IF empty_is_error THEN "NoResults" ELSE "Ok", <<>>,
                          [c EXCEPT ![key] = set_cache(c[key], results, t, io)], 1, FALSE,
                          <<"fetch", "extract", "parse">>)
        ELSE Outcome("Ok", results,
                     [c EXCEPT ![key] = set_cache(c[key], results, t, io)], 1, io = "ok",
                     <<"fetch", "extract", "parse">>)

\* the network path shared by search_videos and fetch_channel_videos:
\* fetch, extract, parse, then the cache write
FetchVideos(c, t, key, limit, page, io, empty_is_error) ==
    LET f == fetch_youtube_html(page)
        x == extract_yt_initial_data(f.html)
        results == parse_search_results(x.data, limit)
    IN  IF f.res # "Ok" THEN Outcome(f.res, <<>>, c, 1, FALSE, <<"fetch">>)
        ELSE IF x.res # "Ok" THEN Outcome(x.res, <<>>, c, 1, FALSE, <<"fetch", "extract">>)
        ELSE IF results = <<>>
             THEN Outcome(IF empty_is_error THEN "NoResults" ELSE "Ok", <<>>, c, 1, FALSE,
                          <<"fetch", "extract", "parse">>)
        ELSE Outcome("Ok", results,
                     [c EXCEPT ![key] = set_cache(c[key], results, t, io)], 1, io = "ok",
                     <<"fetch", "extract", "parse">>)

search_videos_uncached(c, t, query, limit, page, io) ==
    FetchVideos(c, t, get_cache_key(LogicalKey("video", query, limit)), limit, page, io, TRUE)

\* search_videos(query, limit) on cache directory c at time t, the server
\* answering page and the cache write ending as io
search_videos(c, t, query, limit, page, io) ==
    LET key == get_cache_key(LogicalKey("video", query, limit))
        got == get_cached(c[key], t)
    IN  IF got.some THEN Outcome("Ok", got.data, c, 0, FALSE, <<>>)
        ELSE FetchVideos([c EXCEPT ![key] = got.file], t, key, limit, page, io, TRUE)

fetch_channel_videos_no_results(c, t, channel_handle, limit, page, io) ==
    LET key == get_cache_key(LogicalKey("channel", channel_handle, limit))
        got == get_cached(c[key], t)
    IN  IF got.some THEN Outcome("Ok", got.data, c, 0, FALSE, <<>>)
        ELSE FetchVideos([c EXCEPT ![key] = got.file], t, key, limit, page, io, TRUE)

\* fetch_channel_videos(channel_handle, limit)
fetch_channel_videos(c, t, channel_handle, limit, page, io) ==
    LET key == get_cache_key(LogicalKey("channel", channel_handle, limit))
        got == get_cached(c[key], t)
    IN  IF got.some THEN Outcome("Ok", got.data, c, 0, FALSE, <<>>)
        ELSE FetchVideos([c EXCEPT ![key] = got.file], t, key, limit, page, io, FALSE)

search_channels_empty_ok(c, t, query, limit, page) ==
    LET f == fetch_youtube_html(page)
        x == extract_yt_initial_data(f.html)
        results == parse_channel_results(x.data, limit)
    IN  IF f.res # "Ok" THEN Outcome(f.res, <<>>, c, 1, FALSE, <<"fetch">>)
        ELSE IF x.res # "Ok" THEN Outcome(x.res, <<>>, c, 1, FALSE, <<"fetch", "extract">>)
        ELSE Outcome("Ok", results, c, 1, FALSE, <<"fetch", "extract", "parse">>)

\* search_channels(query, limit): no cache
search_channels(c, t, query, limit, page) ==
    LET f == fetch_youtube_html(page)
        x == extract_yt_initial_data(f.html)
        results == parse_channel_results(x.data, limit)
    IN  IF f.res # "Ok" THEN Outcome(f.res, <<>>, c, 1, FALSE, <<"fetch">>)
        ELSE IF x.res # "Ok" THEN Outcome(x.res, <<>>, c, 1, FALSE, <<"fetch", "extract">>)
        ELSE IF results = <<>>
             THEN Outcome("NoResults", <<>>, c, 1, FALSE, <<"fetch", "extract", "parse">>)
        ELSE Outcome("Ok", results, c, 1, FALSE, <<"fetch", "extract", "parse">>)

(***************************************************************************)
(* storage/subscriptions.rs: the subscription file is text, one            *)
(* "name<TAB>handle" line per record.  A text is the sequence of its       *)
(* characters.  The texts enumerated hold no carriage return.               *)
(***************************************************************************)
TAB == "\t"
NL == "\n"

Subscription(name, handle) == [name |-> name, handle |-> handle]

\* the subscription file: absent, or holding a text
SMissing == [kind |-> "missing", text |-> <<>>]
SText(text) == [kind |-> "text", text |-> text]
SBytes == [kind |-> "bytes", text |-> <<>>]      \* content that is not UTF-8

RECURSIVE Join(_, _)
\* Vec<String>::join(sep)
Join(strs, sep) ==
    IF strs = <<>> THEN <<>>
    ELSE IF Len(strs) = 1 THEN strs[1]
    ELSE strs[1] \o sep \o Join(Tail(strs), sep)

RECURSIVE IndexOf(_, _)
\* the position of the first ch in text, 0 when there is none
IndexOf(text, ch) ==
    IF text = <<>> THEN 0
    ELSE IF Head(text) = ch THEN 1
    ELSE IF IndexOf(Tail(text), ch) = 0 THEN 0
    ELSE IndexOf(Tail(text), ch) + 1

RECURSIVE Lines(_)
\* str::lines(): the final line ending is optional
Lines(text) ==
    IF text = <<>> THEN <<>>
    ELSE IF IndexOf(text, NL) = 0 THEN <<text>>
    ELSE <<SubSeq(text, 1, IndexOf(text, NL) - 1)>>
            \o Lines(SubSeq(text, IndexOf(text, NL) + 1, Len(text)))

\* format!("{}\t{}", s.name, s.handle)
FormatLine(s) == s.name \o <<TAB>> \o s.handle

\* line.splitn(2, '\t'): two parts when the line has a tab
HasTwoParts(line) == IndexOf(line, TAB) # 0

ParseLine(line) ==
    Subscription(SubSeq(line, 1, IndexOf(line, TAB) - 1),
                 SubSeq(line, IndexOf(line, TAB) + 1, Len(line)))

RECURSIVE FilterMapLines(_)
FilterMapLines(lines) ==
    IF lines = <<>> THEN <<>>
    ELSE IF HasTwoParts(Head(lines))
         THEN <<ParseLine(Head(lines))>> \o FilterMapLines(Tail(lines))
         ELSE FilterMapLines(Tail(lines))

\* fs::read_to_string(&path).await? returns the error of a read that fails
LoadFails(file) == file.kind = "bytes"

\* load_subscriptions, the list it returns when the read succeeds
load_subscriptions(file) ==
    IF file.kind = "missing" THEN <<>> ELSE FilterMapLines(Lines(file.text))

\* the content save_subscriptions writes
SubscriptionsContent(subs) ==
    Join([i \in 1..Len(subs) |-> FormatLine(subs[i])], <<NL>>)

\* how a save may end: as set_cache may, or with the process killed while
\* fs::write is under way
SaveSubsOutcomes == WriteOutcomes \cup {"killed"}

\* save_subscriptions, the file it leaves: written; failed before the file
\* was opened (ensure_dir, create); or stopped, by an error or by a kill,
\* after fs::write had truncated the file and written the first n characters
save_subscriptions(file, subs, io, n) ==
    CASE io = "ok" -> SText(SubscriptionsContent(subs))
      [] io = "err_untouched" -> file
      [] io \in {"err_partial", "killed"} -> SText(SubSeq(SubscriptionsContent(subs), 1, n))

RECURSIVE RetainOtherHandles(_, _)
\* subs.retain(|s| s.handle != handle)
RetainOtherHandles(subs, handle) ==
    IF subs = <<>> THEN <<>>
    ELSE IF Head(subs).handle # handle
         THEN <<Head(subs)>> \o RetainOtherHandles(Tail(subs), handle)
         ELSE RetainOtherHandles(Tail(subs), handle)

\* the list add_subscription saves
AddedSubs(subs, subscription) ==
    Append(RetainOtherHandles(subs, subscription.handle), subscription)

add_subscription(file, subscription, io, n) ==
    IF LoadFails(file) THEN file
    ELSE save_subscriptions(file, AddedSubs(load_subscriptions(file), subscription), io, n)

remove_subscription(file, handle, io, n) ==
    IF LoadFails(file) THEN file
    ELSE save_subscriptions(file, RetainOtherHandles(load_subscriptions(file), handle), io, n)

\* the invocations that race, and where one stands in add_subscription:
\* before load_subscriptions, after it with the content to write, after
\* fs::write opened the file, after the write
Procs == {1, 2}
Idle == [pc |-> "idle", content |-> <<>>]

\* write(2) of content at offset 0 of the open file
Overwrite(text, content) ==
    content \o SubSeq(text, Len(content) + 1, Len(text))

\* the feed flow before it is entered
FeedIdle == [pc |-> "idle", subs |-> <<>>, i |-> 1, all_videos |-> <<>>, log |-> <<>>]

\* where a write of content may stop
Cuts(content, io) ==
    IF io \in {"err_partial", "killed"} /\ content # <<>> THEN 0..(Len(content) - 1) ELSE {0}

\* what the caller of a save gets
SaveRes(io) == CASE io = "ok" -> "Ok" [] io = "killed" -> "Killed" [] OTHER -> "Err"

\* the names and handles the calls are made with
Names == {<<"n">>, <<"m">>, <<"x", TAB, "y">>}
Handles == {<<"z">>, <<"y", TAB, "z">>}

\* no request in flight, no input chosen, no reader inside get_cached, and
\* main not yet in its Play state
NoRequest == [op |-> "none", arg |-> "", limit |-> 0]
NoInput == [fn |-> "none"]
ReaderIdle == [pc |-> "idle", key |-> ""]
PlayIdle == [pc |-> "idle", selected_video |-> <<>>, copy_url |-> FALSE,
             action |-> "stream", log |-> <<>>]
AppIdle == [state |-> "none"]

(***************************************************************************)
(* Initial state: a History object just constructed by History::new, over  *)
(* a store that does not exist or was left damaged by an earlier run.      *)
(***************************************************************************)
InitOther ==
    /\ now = 0
    /\ max_entries \in 0..MaxM
    /\ added = <<>>
    /\ tracked = TRUE
    /\ ret = Ret("new", "Ok", <<>>)
    /\ cache = [k \in CacheKeys |-> CMissing]
    /\ fetches = 0
    /\ procs = [p \in Procs |-> Idle]
    /\ finished = <<>>
    /\ feed = FeedIdle
    /\ pending = NoRequest
    /\ reader = ReaderIdle
    /\ play = PlayIdle

Init ==
    /\ InitOther
    /\ app = AppIdle
    /\ store \in {Missing, Garbage}
    /\ entries = <<>>
    /\ subs_file = SMissing
    /\ input = NoInput

\* History::new(path, max_entries): a later run of the program, whose
\* configuration may name another maximum
New(m) ==
    /\ max_entries' = m
    /\ entries' = <<>>
    /\ added' = <<>>
    /\ tracked' = TRUE
    /\ ret' = Ret("new", "Ok", <<>>)
    /\ UNCHANGED <<now, store, cvars, ovars>>

\* History::load
Load ==
    /\ entries' = load(store, entries).entries
    /\ ret' = Ret("load", load(store, entries).res, <<>>)
    /\ added' = <<>>
    /\ tracked' = (entries' = <<>>)
    /\ UNCHANGED <<now, store, max_entries, cvars, ovars>>

\* History::add(video), History::save included
Add(video, io) ==
    /\ entries' = AddEntries(entries, video, now, max_entries)
    /\ store' = SaveResult(store, entries', io)
    /\ ret' = Ret("add", IF io = "ok" THEN "Ok" ELSE "Err", <<>>)
    /\ tracked' = (tracked /\ io = "ok" /\ \A i \in 1..Len(added) : added[i] # video.id)
    /\ added' = IF tracked' THEN Append(added, video.id) ELSE <<>>
    /\ UNCHANGED <<now, max_entries, cvars, ovars>>

\* History::get_all
GetAll ==
    /\ ret' = Ret("get_all", "Ok", get_all(entries, store))
    /\ UNCHANGED <<now, store, max_entries, entries, added, tracked, cvars, ovars>>

\* History::clear
Clear(removed) ==
    /\ entries' = <<>>
    /\ \/ /\ store.kind = "missing"
          /\ store' = store
          /\ ret' = Ret("clear", "Ok", <<>>)
       \/ /\ store.kind # "missing"
          /\ removed
          /\ store' = Missing
          /\ ret' = Ret("clear", "Ok", <<>>)
       \/ /\ store.kind # "missing"
          /\ ~removed                         \* fs::remove_file fails
          /\ store' = store
          /\ ret' = Ret("clear", "Err", <<>>)
    /\ added' = <<>>
    /\ tracked' = TRUE
    /\ UNCHANGED <<now, max_entries, cvars, ovars>>

\* Utc::now() moves on by a second
Tick ==
    /\ now < MaxClock
    /\ now' = now + 1
    /\ UNCHANGED <<store, hvars, ret, cvars, ovars>>

\* Utc::now() moves on by a ttl, or by a second more than a ttl
TickTtl(d) ==
    /\ (now + d) \div DEFAULT_TTL <= MaxTtls
    /\ now' = now + d
    /\ UNCHANGED <<store, hvars, ret, cvars, ovars>>

(***************************************************************************)
(* The search operations and the cache, as steps.                          *)
(***************************************************************************)
Apply(op, arg, limit, r) ==
    /\ r.fetched = 0 \/ fetches < MaxFetches
    /\ cache' = r.cache
    /\ fetches' = fetches + r.fetched
    /\ ret' = [Call(op, arg, limit, r.res, r.val, r.wrote) EXCEPT !.ran = r.ran]
    /\ UNCHANGED <<now, store, hvars, ovars>>

SearchVideos(query, limit, page, io) ==
    Apply("search_videos", query, limit, search_videos(cache, now, query, limit, page, io))

FetchChannelVideos(handle, limit, page, io) ==
    Apply("fetch_channel_videos", handle, limit,
          fetch_channel_videos(cache, now, handle, limit, page, io))

SearchChannels(query, limit, page) ==
    Apply("search_channels", query, limit, search_channels(cache, now, query, limit, page))

\* the cache files there are
ExistingKeys == {k \in CacheKeys : cache[k].kind # "missing"}

\* clear_cache: fs::remove_dir_all(get_cache_dir()); the history file
\* (get_history_path) lives in that directory.  The removal deletes the files
\* one by one and stops at the first failure: gone and history_gone are what
\* it got to.
ClearCache(gone, history_gone) ==
    /\ gone \subseteq ExistingKeys
    /\ history_gone => store.kind # "missing"
    /\ cache' = [k \in CacheKeys |-> IF k \in gone THEN CMissing ELSE cache[k]]
    /\ store' = IF history_gone THEN Missing ELSE store
    /\ ret' = Ret("clear_cache",
                  IF cache' = [k \in CacheKeys |-> CMissing] /\ store' = Missing
                  THEN "Ok" ELSE "Err", <<>>)
    /\ UNCHANGED <<now, hvars, fetches, ovars>>

\* what a removal may get to
Removals == (SUBSET ExistingKeys) \X (IF store.kind = "missing" THEN {FALSE} ELSE BOOLEAN)

NextHistory ==
    \/ \E m \in 0..MaxM : New(m)
    \/ Load
    \/ \E video \in Videos, io \in SaveOutcomes : Add(video, io)
    \/ GetAll
    \/ \E removed \in BOOLEAN : Clear(removed)
    \/ \E r \in Removals : ClearCache(r[1], r[2])
    \/ Tick

SpecHistory == Init /\ [][NextHistory]_vars

\* a run of the program over a history file left by an earlier run
InitCache ==
    /\ Init
    /\ max_entries = MaxM
    /\ store = Missing

\* the answers that matter to a call: on a cache hit no request is sent
Answers(kind, arg, limit) ==
    IF get_cached(cache[get_cache_key(LogicalKey(kind, arg, limit))], now).some
    THEN {NoResponse}
    ELSE Pages

\* the cache write happens only after a parse that found videos
Writes(page, limit) ==
    IF /\ fetch_youtube_html(page).res = "Ok"
       /\ extract_yt_initial_data(page).res = "Ok"
       /\ parse_search_results(page.data, limit) # <<>>
    THEN WriteOutcomes
    ELSE {"ok"}

NextSearch ==
    \/ \E q \in Args, l \in Limits :
          \E page \in Answers("video", q, l) :
             \E io \in Writes(page, l) : SearchVideos(q, l, page, io)
    \/ \E h \in Args, l \in Limits :
          \E page \in Answers("channel", h, l) :
             \E io \in Writes(page, l) : FetchChannelVideos(h, l, page, io)
    \/ \E q \in Args, l \in Limits, page \in Pages : SearchChannels(q, l, page)
    \/ \E r \in Removals : ClearCache(r[1], r[2])
    \/ \E d \in {DEFAULT_TTL, DEFAULT_TTL + 1} : TickTtl(d)

SpecSearch == InitCache /\ [][NextSearch]_vars

\* the search operations called within one second: no entry expires
NextFetch ==
    \/ \E q \in Args, l \in Limits :
          \E page \in Answers("video", q, l) :
             \E io \in Writes(page, l) : SearchVideos(q, l, page, io)
    \/ \E h \in Args, l \in Limits :
          \E page \in Answers("channel", h, l) :
             \E io \in Writes(page, l) : FetchChannelVideos(h, l, page, io)
    \/ \E q \in Args, l \in Limits, page \in Pages : SearchChannels(q, l, page)
    \/ \E r \in Removals : ClearCache(r[1], r[2])

SpecFetch == InitCache /\ [][NextFetch]_vars

(***************************************************************************)
(* storage/cache.rs called directly: get_cached, set_cache, clear_cache.   *)
(***************************************************************************)
\* the keys and values the calls are made with
ApiKeys == {get_cache_key(LogicalKey("video", "x", l)) : l \in Limits \ {0}}

DataValues == {<<>>, <<Vid("a", "A")>>, <<Vid("b", "B"), Vid("a", "A")>>}

GetCached(key) ==
    LET g == get_cached(cache[key], now)
    IN  /\ cache' = [cache EXCEPT ![key] = g.file]
        /\ ret' = Call("get_cached", key, 0, IF g.some THEN "Some" ELSE "None", g.data, FALSE)
        /\ UNCHANGED <<now, store, hvars, fetches, ovars>>

SetCache(key, data, io) ==
    /\ cache' = [cache EXCEPT ![key] = set_cache(cache[key], data, now, io)]
    /\ ret' = Call("set_cache", key, 0, IF io = "ok" THEN "Ok" ELSE "Err", data, io = "ok")
    /\ UNCHANGED <<now, store, hvars, fetches, ovars>>

NextCache ==
    \/ \E key \in ApiKeys : GetCached(key)
    \/ \E key \in ApiKeys, data \in DataValues, io \in WriteOutcomes : SetCache(key, data, io)
    \/ \E r \in Removals : ClearCache(r[1], r[2])
    \/ \E d \in {DEFAULT_TTL, DEFAULT_TTL + 1} : TickTtl(d)

SpecCache == InitCache /\ [][NextCache]_vars

(***************************************************************************)
(* storage/subscriptions.rs called directly.                               *)
(***************************************************************************)
AddSubscription(subscription, io) ==
    LET subs == AddedSubs(load_subscriptions(subs_file), subscription)
    IN  /\ Len(subs) <= MaxSubs
        /\ \E n \in Cuts(SubscriptionsContent(subs), io) :
              subs_file' = add_subscription(subs_file, subscription, io, n)
        /\ ret' = IF LoadFails(subs_file)
                  THEN Call("add_subscription", subscription, 0, "Err", <<>>, FALSE)
                  ELSE Call("add_subscription", subscription, 0, SaveRes(io), <<>>, io = "ok")
        /\ UNCHANGED <<now, store, hvars, cvars, rvars, feed, zvars>>

RemoveSubscription(handle, io) ==
    LET subs == RetainOtherHandles(load_subscriptions(subs_file), handle)
    IN  /\ \E n \in Cuts(SubscriptionsContent(subs), io) :
              subs_file' = remove_subscription(subs_file, handle, io, n)
        /\ ret' = IF LoadFails(subs_file)
                  THEN Call("remove_subscription", handle, 0, "Err", <<>>, FALSE)
                  ELSE Call("remove_subscription", handle, 0, SaveRes(io), <<>>, io = "ok")
        /\ UNCHANGED <<now, store, hvars, cvars, rvars, feed, zvars>>

LoadSubscriptions ==
    /\ ret' = IF LoadFails(subs_file)
              THEN Ret("load_subscriptions", "Err", <<>>)
              ELSE Ret("load_subscriptions", "Ok", load_subscriptions(subs_file))
    /\ UNCHANGED <<now, store, hvars, cvars, subs_file, rvars, feed, zvars>>

NextSubs ==
    \/ \E name \in Names, handle \in Handles, io \in SaveSubsOutcomes :
          AddSubscription(Subscription(name, handle), io)
    \/ \E handle \in Handles, io \in SaveSubsOutcomes : RemoveSubscription(handle, io)
    \/ LoadSubscriptions

SpecSubs == InitCache /\ [][NextSubs]_vars

(***************************************************************************)
(* Two invocations of the program calling add_subscription at once, with   *)
(* no lock: each step is one system call's worth of add_subscription.      *)
(***************************************************************************)
\* load_subscriptions, retain, push and the formatting of the content
RaceLoad(p, subscription) ==
    LET subs == AddedSubs(load_subscriptions(subs_file), subscription)
    IN  /\ procs[p].pc = "idle"
        /\ Len(subs) <= MaxSubs
        /\ procs' = [procs EXCEPT ![p] = [pc |-> "loaded", content |-> SubscriptionsContent(subs)]]
        /\ UNCHANGED <<now, store, hvars, cvars, ret, subs_file, finished, feed, zvars>>

\* fs::write: the file is created or truncated
RaceOpen(p) ==
    /\ procs[p].pc = "loaded"
    /\ subs_file' = SText(<<>>)
    /\ procs' = [procs EXCEPT ![p].pc = "opened"]
    /\ UNCHANGED <<now, store, hvars, cvars, ret, finished, feed, zvars>>

\* fs::write: the content is written from the start of the file
RaceWrite(p) ==
    /\ procs[p].pc = "opened"
    /\ subs_file' = SText(Overwrite(subs_file.text, procs[p].content))
    /\ procs' = [procs EXCEPT ![p].pc = "done"]
    /\ finished' = Append(finished, p)
    /\ UNCHANGED <<now, store, hvars, cvars, ret, feed, zvars>>

NextRace ==
    \/ \E p \in Procs, name \in Names, handle \in Handles :
          RaceLoad(p, Subscription(name, handle))
    \/ \E p \in Procs : RaceOpen(p)
    \/ \E p \in Procs : RaceWrite(p)

SpecRace == InitCache /\ [][NextRace]_vars

(***************************************************************************)
(* main.rs, AppState::Feed: the subscriptions are loaded and                *)
(* fetch_channel_videos is called for each, one call a step.               *)
(***************************************************************************)
feed_loop_abort_on_error(f, r) ==
    [f EXCEPT !.all_videos = IF r.res = "Ok" THEN f.all_videos \o r.val ELSE f.all_videos,
              !.i = f.i + 1,
              !.pc = IF r.res # "Ok" THEN "exit"
                     ELSE IF f.i < Len(f.subs) THEN "loop"
                     ELSE IF f.all_videos \o r.val = <<>> THEN "exit" ELSE "select"]

\* one turn of the for loop on the Result r of fetch_channel_videos, with
\* the test of all_videos that follows the last turn
feed_loop(f, r) ==
    LET all == IF r.res = "Ok" THEN f.all_videos \o r.val ELSE f.all_videos
    IN  [f EXCEPT !.all_videos = all,
                  !.i = f.i + 1,
                  !.pc = IF f.i < Len(f.subs) THEN "loop"
                         ELSE IF all = <<>> THEN "exit" ELSE "select"]

\* the flow is entered: load_subscriptions, and Exit when there is none
FeedStart ==
    LET subs == load_subscriptions(subs_file)
    IN  /\ feed.pc # "loop"
        /\ fetches < MaxFetches
        /\ feed' = [pc |-> IF subs = <<>> THEN "exit" ELSE "loop",
                    subs |-> subs, i |-> 1, all_videos |-> <<>>, log |-> <<>>]
        /\ ret' = Ret("load_subscriptions", "Ok", subs)
        /\ UNCHANGED <<now, store, hvars, cvars, subs_file, rvars, zvars>>

\* youtube::fetch_channel_videos(&sub.handle, 5) for the next subscription
FeedFetch(page, io) ==
    LET handle == Str(feed.subs[feed.i].handle)
        r == fetch_channel_videos(cache, now, handle, FeedLimit, page, io)
    IN  /\ feed.pc = "loop"
        /\ cache' = r.cache
        /\ fetches' = fetches + r.fetched
        /\ ret' = [Call("fetch_channel_videos", handle, FeedLimit, r.res, r.val, r.wrote)
                      EXCEPT !.ran = r.ran]
        /\ feed' = [feed_loop(feed, r) EXCEPT
                        !.log = Append(feed.log, [handle |-> handle, res |-> r.res, val |-> r.val])]
        /\ UNCHANGED <<now, store, hvars, subs_file, rvars, zvars>>

\* a subscription added by the subscribe flow, between two feeds
FeedSubscribe(subscription) ==
    /\ feed.pc # "loop"
    /\ AddSubscription(subscription, "ok")

NextFeed ==
    \/ \E handle \in FeedHandles : FeedSubscribe(Subscription(<<"n">>, handle))
    \/ FeedStart
    \/ /\ feed.pc = "loop"
       /\ \E page \in Answers("channel", Str(feed.subs[feed.i].handle), FeedLimit) :
             \E io \in Writes(page, FeedLimit) : FeedFetch(page, io)

SpecFeed == InitCache /\ [][NextFeed]_vars

(***************************************************************************)
(* Cache and search: the claims.                                           *)
(***************************************************************************)
\* the file holds an entry that has not expired at time t
Fresh(file, t) == file.kind = "json" /\ t - file.doc.timestamp <= file.doc.ttl

Serialized(videos) == [i \in 1..Len(videos) |-> [k \in VideoFields |-> videos[i][k]]]

VideoKey(q, l) == get_cache_key(LogicalKey("video", q, l))
ChannelKey(h, l) == get_cache_key(LogicalKey("channel", h, l))

\* the call returned what the file under key held and sent no request
ServedFromCache(key) ==
    /\ ret'.res = "Ok"
    /\ Serialized(ret'.val) = cache[key].doc.data
    /\ fetches' = fetches
    /\ cache' = cache

VideoOpsServeFromCache ==
    /\ \A q \in Args, l \in Limits :
          ( /\ ret'.op = "search_videos"
            /\ Fresh(cache[VideoKey(q, l)], now)
            /\ \E page \in Pages, io \in WriteOutcomes : SearchVideos(q, l, page, io) )
          => ServedFromCache(VideoKey(q, l))
    /\ \A h \in Args, l \in Limits :
          ( /\ ret'.op = "fetch_channel_videos"
            /\ Fresh(cache[ChannelKey(h, l)], now)
            /\ \E page \in Pages, io \in WriteOutcomes : FetchChannelVideos(h, l, page, io) )
          => ServedFromCache(ChannelKey(h, l))

SearchVideosRepeatable ==
    [][\A page \in Pages, io \in WriteOutcomes :
        ( /\ ret.op = "search_videos"
          /\ ret.res = "Ok"
          /\ ret.val # <<>>
          /\ ret.wrote
          /\ ret'.op = "search_videos"
          /\ now - cache[VideoKey(ret.arg, ret.limit)].doc.timestamp
                <= cache[VideoKey(ret.arg, ret.limit)].doc.ttl
          /\ SearchVideos(ret.arg, ret.limit, page, io) )
        => ( /\ ret'.res = "Ok"
             /\ ret'.val = ret.val
             /\ fetches' = fetches )]_vars

SearchVideosRepeatWitness ==
    /\ ret.op = "search_videos"
    /\ ret.res = "Ok"
    /\ ret.limit = 2
    /\ Len(ret.val) = 2
    /\ ~ret.wrote
    /\ fetches = 1
    /\ now = DEFAULT_TTL
    /\ cache[VideoKey(ret.arg, ret.limit)].doc.timestamp = 0

CacheRoundTrip ==
    [][/\ \A key \in ApiKeys :
            ( /\ ret.op = "set_cache"
              /\ ret.arg = key
              /\ ret.res = "Ok"
              /\ GetCached(key)
              /\ now - cache[key].doc.timestamp <= DEFAULT_TTL )
            => (ret'.res = "Some" /\ ret'.val = ret.val)
       /\ \A key \in ApiKeys, data \in DataValues :
            SetCache(key, data, "ok") =>
                /\ get_cached(cache'[key], now').some
                /\ get_cached(cache'[key], now').data = data]_vars

CacheRoundTripWitness ==
    /\ ret.op = "get_cached"
    /\ ret.res = "Some"
    /\ Len(ret.val) = 2
    /\ now = DEFAULT_TTL
    /\ cache[ret.arg].doc.timestamp = 0

(***************************************************************************)
(* The network path of the search operations: the claims.                  *)
(***************************************************************************)
\* the answer is a page without the embedded data, or with data that is
\* not JSON
PageNoData(page) == page.kind = "html" /\ ~(page.marker /\ page.json_ok)

\* the answer is a page whose embedded data is extracted
PageHasData(page) == page.kind = "html" /\ page.marker /\ page.json_ok

\* a step of search_videos(q, l) that found no valid entry and got page
VideoMiss(q, l, page) ==
    /\ ret'.op = "search_videos"
    /\ ret'.arg = q
    /\ ret'.limit = l
    /\ ~Fresh(cache[VideoKey(q, l)], now)
    /\ \E io \in WriteOutcomes : SearchVideos(q, l, page, io)

\* a step of fetch_channel_videos(h, l) that found no valid entry and got page
ChannelMiss(h, l, page) ==
    /\ ret'.op = "fetch_channel_videos"
    /\ ret'.arg = h
    /\ ret'.limit = l
    /\ ~Fresh(cache[ChannelKey(h, l)], now)
    /\ \E io \in WriteOutcomes : FetchChannelVideos(h, l, page, io)

\* a step of search_channels(q, l) that got page
ChannelSearch(q, l, page) ==
    /\ ret'.op = "search_channels"
    /\ ret'.arg = q
    /\ ret'.limit = l
    /\ SearchChannels(q, l, page)

\* C15: on a cache miss, a page without the embedded-data marker, or whose
\* captured text is not JSON, makes search_videos fail with YouTubeParse,
\* never with NoResults.
MissingDataIsParseError ==
    [][\A q \in Args, l \in Limits, page \in Pages :
        (PageNoData(page) /\ VideoMiss(q, l, page))
        => (ret'.res = "YouTubeParse" /\ ret'.res # "NoResults")]_vars

MissingDataWitness ==
    /\ ret.op = "search_videos"
    /\ ret.res = "YouTubeParse"
    /\ ret.ran = <<"fetch", "extract">>
    /\ fetches = 1

\* C16: on a cache miss, when fetch and extraction succeed and parsing gives
\* an empty sequence (no matching item, or limit 0), search_videos and
\* search_channels fail with NoResults, which is neither the parse error nor
\* a network error.
EmptyParseIsNoResults ==
    [][\A q \in Args, l \in Limits, page \in Pages :
        /\ ( /\ PageHasData(page)
             /\ parse_search_results(page.data, l) = <<>>
             /\ VideoMiss(q, l, page) )
           => (ret'.res = "NoResults" /\ ret'.res \notin {"YouTubeParse", "Network", "Http"})
        /\ ( /\ PageHasData(page)
             /\ parse_channel_results(page.data, l) = <<>>
             /\ ChannelSearch(q, l, page) )
           => (ret'.res = "NoResults" /\ ret'.res \notin {"YouTubeParse", "Network", "Http"})]_vars

EmptyParseWitness ==
    /\ ret.op = "search_channels"
    /\ ret.res = "NoResults"
    /\ ret.limit = 1
    /\ ret.ran = <<"fetch", "extract", "parse">>

\* C17: fetch_channel_videos returns success with an empty sequence, not
\* NoResults, when fetch and extraction succeed and parsing gives no videos.
EmptyChannelIsSuccess ==
    [][\A h \in Args, l \in Limits, page \in Pages :
        ( /\ PageHasData(page)
          /\ parse_search_results(page.data, l) = <<>>
          /\ ChannelMiss(h, l, page) )
        => (ret'.res = "Ok" /\ ret'.val = <<>>)]_vars

EmptyChannelWitness ==
    /\ ret.op = "fetch_channel_videos"
    /\ ret.res = "Ok"
    /\ ret.val = <<>>
    /\ ret.limit = 2
    /\ ret.ran = <<"fetch", "extract", "parse">>

\* what a call that got page went through and returned: fetch, then
\* extract, then parse, ending at the first step that failed with that
\* step's error
StopsAtFirstError(page) ==
    CASE page.kind = "transport_error" -> ret'.ran = <<"fetch">> /\ ret'.res = "Http"
      [] page.kind = "http_status" -> ret'.ran = <<"fetch">> /\ ret'.res = "Network"
      [] PageNoData(page) -> ret'.ran = <<"fetch", "extract">> /\ ret'.res = "YouTubeParse"
      [] OTHER -> /\ ret'.ran = <<"fetch", "extract", "parse">>
                  /\ ret'.res \in {"Ok", "NoResults"}

\* C18: on a cache miss each search operation runs fetch, extract and parse
\* in that order and stops at the first error, which the caller receives:
\* after a fetch error neither extract nor parse runs, after an extract error
\* parse does not run.
FetchExtractParseInOrder ==
    [][\A q \in Args, l \in Limits, page \in Pages :
        /\ VideoMiss(q, l, page) => StopsAtFirstError(page)
        /\ ChannelMiss(q, l, page) => StopsAtFirstError(page)
        /\ ChannelSearch(q, l, page) => StopsAtFirstError(page)]_vars

FetchErrorWitness ==
    /\ ret.op = "fetch_channel_videos"
    /\ ret.res = "Network"
    /\ ret.ran = <<"fetch">>
    /\ ret.val = <<>>

\* C19: when fetch, extract and parse succeed with a non-empty result and
\* the cache write fails, search_videos and fetch_channel_videos still return
\* success with the parsed result.
CacheWriteIsBestEffort ==
    [][\A q \in Args, l \in Limits, page \in Pages, io \in WriteOutcomes \ {"ok"} :
        ( /\ ret'.op \in {"search_videos", "fetch_channel_videos"}
          /\ ret'.arg = q
          /\ ret'.limit = l
          /\ PageHasData(page)
          /\ parse_search_results(page.data, l) # <<>>
          /\ \/ ~Fresh(cache[VideoKey(q, l)], now) /\ SearchVideos(q, l, page, io)
             \/ ~Fresh(cache[ChannelKey(q, l)], now) /\ FetchChannelVideos(q, l, page, io) )
        => (ret'.res = "Ok" /\ ret'.val = parse_search_results(page.data, l))]_vars

CacheWriteFailedWitness ==
    /\ ret.op = "search_videos"
    /\ ret.res = "Ok"
    /\ Len(ret.val) = 2
    /\ ~ret.wrote
    /\ ret.ran = <<"fetch", "extract", "parse">>
    /\ cache[VideoKey(ret.arg, ret.limit)].kind = "garbage"

(***************************************************************************)
(* History: the claims.                                                    *)
(***************************************************************************)

\* C5: in every reachable state of a History object, after new, load, add
\* and clear in any order, get_all() holds no video id twice and at most
\* max_entries entries.
HistoryUniqueAndBounded ==
    /\ NoDup(Ids(entries))
    /\ Len(entries) <= max_entries

\* C6: from an empty history with maximum M, after N > M successful add
\* calls with pairwise distinct ids, get_all() holds exactly the ids of the
\* M most recent calls, latest first.
HistoryBounding ==
    (tracked /\ Len(added) > max_entries) =>
        /\ Len(entries) = max_entries
        /\ Ids(entries) = Take(Reverse(added), max_entries)

HistoryBoundingWitness ==
    /\ tracked
    /\ max_entries = 2
    /\ Len(added) = 3
    /\ Ids(entries) = <<added[3], added[2]>>

Present(id, es) == \E i \in 1..Len(es) : es[i].video.id = id

\* C7: add(v) for an id already present leaves exactly one entry for that
\* id, at the front with the timestamp of this call, and keeps the relative
\* order of the other entries.
HistoryDedup ==
    [][\A video \in Videos, io \in SaveOutcomes :
        (Add(video, io) /\ Present(video.id, entries)) =>
            /\ Cardinality({i \in 1..Len(entries') : entries'[i].video.id = video.id}) = 1
            /\ entries'[1] = HistoryEntry(video, now)
            /\ Filter(entries', video.id)
                 = Take(Filter(entries, video.id), Len(entries') - 1)]_vars

MostRecentFirst ==
    \A i \in 1..(Len(entries) - 1) : entries[i].timestamp >= entries[i + 1].timestamp

\* C8: get_all() is most-recent first (timestamps never increase from front
\* to back, in every reachable history, the ones built only by add calls
\* included), and a get_all call returns the in-memory entries whatever the
\* store holds and leaves the store and the entries as they were.
GetAllMostRecentFirst ==
    /\ []MostRecentFirst
    /\ [][(ret'.op = "get_all" /\ ret' # ret) =>
            /\ ret'.val = entries
            /\ store' = store
            /\ entries' = entries]_vars

GetAllWitness ==
    /\ ret.op = "get_all"
    /\ Len(ret.val) = 2
    /\ ret.val[1].timestamp > ret.val[2].timestamp
    /\ from_str_or_default(store) # entries

\* C9: when add returns success the store holds the full in-memory list: a
\* fresh History that loads the same path gets a list equal to get_all() of
\* the writer.
HistoryDurable ==
    (ret.op = "add" /\ ret.res = "Ok") =>
        load(store, <<>>) = [res |-> "Ok", entries |-> entries]

HistoryDurableWitness ==
    /\ ret.op = "add"
    /\ ret.res = "Ok"
    /\ Len(entries) = 2
    /\ entries[1].timestamp # entries[2].timestamp

\* C10: load() returns success and leaves an empty history when the store
\* is missing and when its content is not a valid serialized entry list.
LoadNeverFailsOnContent ==
    (ret.op = "load" /\ store.kind # "json") =>
        /\ ret.res = "Ok"
        /\ entries = <<>>

(***************************************************************************)
(* Subscriptions: the claims.                                              *)
(***************************************************************************)
HasHandle(subs, handle) == \E i \in 1..Len(subs) : subs[i].handle = handle

\* C11: after any sequence of add_subscription and remove_subscription calls
\* from a missing or empty store, no two records of the stored list, as
\* load_subscriptions reads it, have the same handle.
SubscriptionHandlesUnique ==
    \A i, j \in 1..Len(load_subscriptions(subs_file)) :
        i # j => load_subscriptions(subs_file)[i].handle # load_subscriptions(subs_file)[j].handle

\* C12: a successful add_subscription(s) on a store that has a record with
\* s.handle leaves the number of records as it was, the record for s.handle
\* then carries s.name, and the records with other handles are as before.
SubscriptionUpsert ==
    [][\A name \in Names, handle \in Handles :
        ( /\ ret'.op = "add_subscription"
          /\ HasHandle(load_subscriptions(subs_file), handle)
          /\ AddSubscription(Subscription(name, handle), "ok") )
        => LET old == load_subscriptions(subs_file)
               new == load_subscriptions(subs_file')
           IN  /\ Len(new) = Len(old)
               /\ HasHandle(new, handle)
               /\ \A i \in 1..Len(new) : new[i].handle = handle => new[i].name = name
               /\ RetainOtherHandles(new, handle) = RetainOtherHandles(old, handle)]_vars

\* C13: every write of the history store, the subscription store and a cache
\* entry leaves the file with the complete old content or the complete new
\* content, also when the process is killed during the write.
WritesAreWholeFile ==
    [][/\ (ret'.op = "add_subscription" /\ subs_file' # subs_file)
            => subs_file' = SText(SubscriptionsContent(
                                AddedSubs(load_subscriptions(subs_file), ret'.arg)))
       /\ (ret'.op = "remove_subscription" /\ subs_file' # subs_file)
            => subs_file' = SText(SubscriptionsContent(
                                RetainOtherHandles(load_subscriptions(subs_file), ret'.arg)))
       /\ (ret'.op = "add" /\ store' # store)
            => store' = Json(to_string_pretty(entries'))
       /\ \A key \in CacheKeys :
            (ret'.op = "set_cache" /\ cache'[key] # cache[key])
            => cache'[key] = CJson(SerializeCacheEntry(CacheEntry(ret'.val, now, DEFAULT_TTL)))]_vars

\* C14: when two invocations have both finished an add_subscription on the
\* same store, under every interleaving the store holds exactly the complete
\* content written by the one that finished last.
LastWriterWins ==
    (\A p \in Procs : procs[p].pc = "done")
        => subs_file = SText(procs[finished[Len(finished)]].content)

(***************************************************************************)
(* The feed flow: the claim.                                               *)
(***************************************************************************)
RECURSIVE ConcatSucceeded(_)
\* the results of the calls that returned Ok, one after the other
ConcatSucceeded(log) ==
    IF log = <<>> THEN <<>>
    ELSE (IF Head(log).res = "Ok" THEN Head(log).val ELSE <<>>) \o ConcatSucceeded(Tail(log))

\* C20: whichever channels fail, the feed flow goes through every
\* subscription in order, and the aggregate feed is the concatenation, in
\* subscription order, of the results of the channels that succeeded.
FeedToleratesFailures ==
    /\ feed.all_videos = ConcatSucceeded(feed.log)
    /\ Len(feed.log) <= Len(feed.subs)
    /\ \A k \in 1..Len(feed.log) : feed.log[k].handle = Str(feed.subs[k].handle)
    /\ feed.pc \in {"select", "exit"} => Len(feed.log) = Len(feed.subs)
    /\ feed.pc = "select" => feed.all_videos # <<>>

FeedWitness ==
    /\ feed.pc = "select"
    /\ Len(feed.subs) = 2
    /\ feed.log[1].res # "Ok"
    /\ feed.log[2].res = "Ok"
    /\ feed.all_videos = feed.log[2].val

(***************************************************************************)
(* A search operation over the network, with the request as a step of its  *)
(* own: the operation sends its request and waits in send().await          *)
(* (youtube.rs:27-32) until the server's answer arrives.  The client is    *)
(* built by reqwest::Client::new() (youtube.rs:24), which sets no timeout, *)
(* so there is no step that ends the wait other than an answer.            *)
(***************************************************************************)
\* the operation's lookup before the request: none for search_channels
LookedUp(op, arg, limit) ==
    IF op = "search_channels" THEN cache
    ELSE LET kind == IF op = "search_videos" THEN "video" ELSE "channel"
             key == get_cache_key(LogicalKey(kind, arg, limit))
         IN  [cache EXCEPT ![key] = get_cached(cache[key], now).file]

\* does the operation go to the network?
Misses(op, arg, limit) ==
    \/ op = "search_channels"
    \/ LET kind == IF op = "search_videos" THEN "video" ELSE "channel"
       IN  ~get_cached(cache[get_cache_key(LogicalKey(kind, arg, limit))], now).some

\* the operation, given the answer to its request
Completed(op, arg, limit, page, io) ==
    CASE op = "search_videos" -> search_videos(cache, now, arg, limit, page, io)
      [] op = "fetch_channel_videos" -> fetch_channel_videos(cache, now, arg, limit, page, io)
      [] OTHER -> search_channels(cache, now, arg, limit, page)

NetOps == {"search_videos", "fetch_channel_videos", "search_channels"}

\* a call answered from the cache: no request
NetHit(op, arg, limit) ==
    /\ pending = NoRequest
    /\ ~Misses(op, arg, limit)
    /\ Apply(op, arg, limit, Completed(op, arg, limit, NoResponse, "ok"))

\* client.get(url)...send(): the request leaves and the operation waits
NetSend(op, arg, limit) ==
    /\ pending = NoRequest
    /\ Misses(op, arg, limit)
    /\ fetches < MaxFetches
    /\ pending' = [op |-> op, arg |-> arg, limit |-> limit]
    /\ cache' = LookedUp(op, arg, limit)
    /\ UNCHANGED <<now, store, hvars, ret, fetches, subs_file, rvars, feed,
                   input, reader, play, app>>

\* the server answers (or the connection fails): the operation runs to its end
NetAnswer(page, io) ==
    /\ pending # NoRequest
    /\ LET r == Completed(pending.op, pending.arg, pending.limit, page, io)
       IN  /\ cache' = r.cache
           /\ fetches' = fetches + r.fetched
           /\ ret' = [Call(pending.op, pending.arg, pending.limit, r.res, r.val, r.wrote)
                        EXCEPT !.ran = r.ran]
    /\ pending' = NoRequest
    /\ UNCHANGED <<now, store, hvars, subs_file, rvars, feed, input, reader, play, app>>

NextNet ==
    \/ \E op \in NetOps, q \in Args, l \in Limits : NetHit(op, q, l)
    \/ \E op \in NetOps, q \in Args, l \in Limits : NetSend(op, q, l)
    \/ \E page \in Pages, io \in WriteOutcomes :
          /\ pending # NoRequest
          /\ io \in Writes(page, pending.limit)
          /\ NetAnswer(page, io)

\* the program takes its own steps; nothing obliges the server to answer
SpecNet ==
    /\ InitCache
    /\ [][NextNet]_vars
    /\ WF_vars(\E op \in NetOps, q \in Args, l \in Limits : NetHit(op, q, l))
    /\ WF_vars(\E op \in NetOps, q \in Args, l \in Limits : NetSend(op, q, l))

(***************************************************************************)
(* Network termination claim.                                              *)
(***************************************************************************)
\* C21: every network fetch ends: an operation that is waiting on its request
\* eventually returns, also when the server never answers.
EveryFetchEnds == (pending # NoRequest) ~> (pending = NoRequest)

(***************************************************************************)
(* Cache-miss claim.                                                       *)
(***************************************************************************)
\* the call gave no cache-read error: it went to the network, and what it
\* returned is a result of the network path
WentToNetwork ==
    /\ ret'.ran # <<>>
    /\ ret'.ran[1] = "fetch"
    /\ fetches' = fetches + 1
    /\ ret'.res \in {"Ok", "Http", "Network", "YouTubeParse", "NoResults"}

\* C22: get_cached gives none, never an error, for a missing file, a file that
\* cannot be read or deserialized, and an expired entry; the search operation
\* that called it then takes the network path.
CacheMissGoesToNetwork ==
    [][/\ ( /\ ret'.op = "search_videos"
            /\ ~Fresh(cache[VideoKey(ret'.arg, ret'.limit)], now)
            /\ \E page \in Pages, io \in WriteOutcomes :
                  SearchVideos(ret'.arg, ret'.limit, page, io) )
          => ( /\ ~get_cached(cache[VideoKey(ret'.arg, ret'.limit)], now).some
               /\ WentToNetwork )
       /\ ( /\ ret'.op = "fetch_channel_videos"
            /\ ~Fresh(cache[ChannelKey(ret'.arg, ret'.limit)], now)
            /\ \E page \in Pages, io \in WriteOutcomes :
                  FetchChannelVideos(ret'.arg, ret'.limit, page, io) )
          => ( /\ ~get_cached(cache[ChannelKey(ret'.arg, ret'.limit)], now).some
               /\ WentToNetwork )]_vars

\* an entry expired, was looked up, and the call fetched again and stored anew
CacheMissWitness ==
    /\ ret.op = "search_videos"
    /\ ret.ran # <<>>
    /\ ret.wrote
    /\ now > DEFAULT_TTL
    /\ fetches = 2
    /\ cache[VideoKey(ret.arg, ret.limit)].kind = "json"
    /\ cache[VideoKey(ret.arg, ret.limit)].doc.timestamp = now

(***************************************************************************)
(* The parsers of core/youtube.rs applied to documents: ytInitialData as a *)
(* tree of JSON values, the nested path to the item list walked step by    *)
(* step as the chain of get(..).and_then(..) does.                         *)
(***************************************************************************)
MaxItems == 2      \* longest item list parsed

\* serde_json values: null, a string, an object (one key shown), an array
JNull == [type |-> "null"]
JStr == [type |-> "string"]
JObj(key, child) == [type |-> "object", key |-> key, child |-> child]
JArr(elems) == [type |-> "array", elems |-> elems]

\* the steps from the document to the item list
ItemsPath == <<"contents", "twoColumnSearchResultsRenderer", "primaryContents",
               "sectionListRenderer", "contents", "[0]", "itemSectionRenderer",
               "contents">>

GetLenient(value, step) ==
    IF ~Has(value, "type") THEN [some |-> TRUE, value |-> value]
    ELSE IF step = "[0]" /\ value.type = "array" /\ value.elems # <<>>
         THEN [some |-> TRUE, value |-> value.elems[1]]
    ELSE IF step # "[0]" /\ value.type = "object" /\ value.key = step
         THEN [some |-> TRUE, value |-> value.child]
    ELSE [some |-> TRUE, value |-> value]

\* Value::get: a key of an object, an index of an array, none otherwise.  An
\* item of the list (a record without type) is an object with none of the
\* path's keys.
Get(value, step) ==
    IF ~Has(value, "type") THEN [some |-> FALSE, value |-> JNull]
    ELSE IF step = "[0]" /\ value.type = "array" /\ value.elems # <<>>
         THEN [some |-> TRUE, value |-> value.elems[1]]
    ELSE IF step # "[0]" /\ value.type = "object" /\ value.key = step
         THEN [some |-> TRUE, value |-> value.child]
    ELSE [some |-> FALSE, value |-> JNull]

RECURSIVE GetPath(_, _)
\* data.get(..).and_then(|c| c.get(..))...
GetPath(value, path) ==
    IF path = <<>> THEN [some |-> TRUE, value |-> value]
    ELSE LET g == Get(value, Head(path))
         IN  IF g.some THEN GetPath(g.value, Tail(path)) ELSE g

\* ....and_then(|c| c.as_array()): what the parsers find at the end of the path
ItemsAt(json) ==
    LET g == GetPath(json, ItemsPath)
        ok == g.some /\ Has(g.value, "type") /\ g.value.type = "array"
    IN  [path_ok |-> ok, items |-> IF ok THEN g.value.elems ELSE <<>>]

RECURSIVE Wrap(_, _)
\* a document that holds leaf under the steps of path
Wrap(path, leaf) ==
    IF path = <<>> THEN leaf
    ELSE IF Head(path) = "[0]" THEN JArr(<<Wrap(Tail(path), leaf)>>)
    ELSE JObj(Head(path), Wrap(Tail(path), leaf))

\* a video item with every field, and the same with one field missing
FullItem(id) ==
    [videoRenderer |->
        [videoId |-> id, title |-> "Rock &amp; Roll", longBylineText |-> "au",
         lengthText |-> "3:45", viewCountText |-> "1K views",
         publishedTimeText |-> "1 day ago", thumbnails |-> <<"small.jpg", "big.jpg">>]]

Without(item, field) ==
    [videoRenderer |->
        [k \in DOMAIN item.videoRenderer \ {field} |-> item.videoRenderer[k]]]

OptionalFields == {"title", "longBylineText", "lengthText", "viewCountText",
                   "publishedTimeText", "thumbnails"}

\* what the item list may hold when videos are searched
SearchItems ==
    {FullItem("a"), FullItem("b"), LiveItem, NoIdItem, AdItem, ChannelItem}
    \cup {Without(FullItem("d"), f) : f \in OptionalFields}

\* what it may hold when channels are searched: a channel with a subscriber
\* count, one without, one without a title, one without an id
ChannelItems ==
    {ChannelItem,
     [channelRenderer |-> [title |-> "Other", channelId |-> "UC2"]],
     [channelRenderer |-> [channelId |-> "UC3", subscriberCountText |-> "2K"]],
     [channelRenderer |-> [title |-> "No id"]],
     AdItem, FullItem("a")}

Lists(S) == UNION {[1..n -> S] : n \in 0..MaxItems}

\* what stands where the path ends or breaks off
Leaves(S, depth) ==
    {JNull, JStr, JObj("other", JNull), JArr(<<>>)}
    \cup {JArr(items) : items \in IF depth = Len(ItemsPath) THEN Lists(S) ELSE [1..1 -> S]}

ParseInputs ==
    {[fn |-> "parse_search_results", depth |-> d, leaf |-> leaf, limit |-> l] :
        d \in {Len(ItemsPath)}, leaf \in Leaves(SearchItems, Len(ItemsPath)), l \in 0..MaxItems}
    \cup {[fn |-> "parse_search_results", depth |-> d, leaf |-> leaf, limit |-> MaxItems] :
        d \in 0..(Len(ItemsPath) - 1), leaf \in Leaves({FullItem("a")}, 0)}
    \cup {[fn |-> "parse_channel_results", depth |-> d, leaf |-> leaf, limit |-> l] :
        d \in {Len(ItemsPath)}, leaf \in Leaves(ChannelItems, Len(ItemsPath)), l \in 0..MaxItems}
    \cup {[fn |-> "parse_channel_results", depth |-> d, leaf |-> leaf, limit |-> MaxItems] :
        d \in 0..(Len(ItemsPath) - 1), leaf \in Leaves({ChannelItem}, 0)}

\* the document of an input
Document(in) == Wrap(SubSeq(ItemsPath, 1, in.depth), in.leaf)

InitParse ==
    /\ InitOther
    /\ app = AppIdle
    /\ max_entries = MaxM
    /\ store = Missing
    /\ entries = <<>>
    /\ subs_file = SMissing
    /\ input \in ParseInputs

ParseSearchResults ==
    /\ input.fn = "parse_search_results"
    /\ ret' = Call(input.fn, "", input.limit, "Ok",
                   parse_search_results(ItemsAt(Document(input)), input.limit), FALSE)
    /\ UNCHANGED <<now, store, hvars, cvars, ovars>>

ParseChannelResults ==
    /\ input.fn = "parse_channel_results"
    /\ ret' = Call(input.fn, "", input.limit, "Ok",
                   parse_channel_results(ItemsAt(Document(input)), input.limit), FALSE)
    /\ UNCHANGED <<now, store, hvars, cvars, ovars>>

NextParse == ParseSearchResults \/ ParseChannelResults

SpecParse == InitParse /\ [][NextParse]_vars

(***************************************************************************)
(* Parser claims.                                                          *)
(***************************************************************************)
\* the parser has been applied to the input
Parsed(fn) == input.fn = fn /\ ret.op = fn

\* the input's document holds an item list at the end of the whole path
HoldsItems == input.depth = Len(ItemsPath) /\ input.leaf.type = "array"

IsVideoWithId(item) == "videoRenderer" \in DOMAIN item /\ "videoId" \in DOMAIN item.videoRenderer

IsNamedChannel(item) ==
    /\ "channelRenderer" \in DOMAIN item
    /\ "title" \in DOMAIN item.channelRenderer
    /\ "channelId" \in DOMAIN item.channelRenderer

\* C23: both parsers return exactly the first min(limit, number accepted)
\* accepted items, in upstream order: the whole list filtered, then truncated.
FilterThenTruncate ==
    /\ (Parsed("parse_search_results") /\ HoldsItems)
         => LET kept == SelectSeq(input.leaf.elems, IsVideoWithId)
                n == Min(input.limit, Len(kept))
            IN  /\ Len(ret.val) = n
                /\ \A i \in 1..n : ret.val[i] = VideoOf(kept[i])
    /\ (Parsed("parse_channel_results") /\ HoldsItems)
         => LET kept == SelectSeq(input.leaf.elems, IsNamedChannel)
                n == Min(input.limit, Len(kept))
            IN  /\ Len(ret.val) = n
                /\ \A i \in 1..n : ret.val[i] = ChannelOf(kept[i])

\* an item that is not accepted comes first and the limit is 1: the record
\* returned is of an accepted item behind it
FilterThenTruncateWitness ==
    /\ Parsed("parse_search_results")
    /\ HoldsItems
    /\ input.limit = 1
    /\ Len(input.leaf.elems) = MaxItems
    /\ ~IsVideoWithId(input.leaf.elems[1])
    /\ IsVideoWithId(input.leaf.elems[2])
    /\ Len(ret.val) = 1

\* the text of a field, or the fallback where the item has no such field
FieldOr(v, field, fallback) == IF field \in DOMAIN v THEN v[field] ELSE fallback

\* C24: in parse_search_results an item without a duration is reported as
\* "LIVE", an item without an identifier yields no record, a missing author,
\* views, published, title or thumbnail becomes the empty string, and an item
\* that is not video-shaped is skipped without affecting the others.
FieldFallbacks ==
    (Parsed("parse_search_results") /\ HoldsItems /\ input.limit >= Len(input.leaf.elems))
    => LET kept == SelectSeq(input.leaf.elems, IsVideoWithId)
       IN  /\ Len(ret.val) = Len(kept)
           /\ \A i \in 1..Len(kept) :
                 LET v == kept[i].videoRenderer
                     out == ret.val[i]
                 IN  /\ out.id = v.videoId
                     /\ out.duration = FieldOr(v, "lengthText", "LIVE")
                     /\ out.author = FieldOr(v, "longBylineText", "")
                     /\ out.views = FieldOr(v, "viewCountText", "")
                     /\ out.published = FieldOr(v, "publishedTimeText", "")
                     /\ "title" \notin DOMAIN v => out.title = ""
                     /\ "thumbnails" \notin DOMAIN v => out.thumbnail = ""
                     /\ "thumbnails" \in DOMAIN v => out.thumbnail = "big.jpg"

\* a list of an item that is no video and a video without a duration: one
\* record, reported as live, its other missing fields empty
FieldFallbacksWitness ==
    /\ Parsed("parse_search_results")
    /\ HoldsItems
    /\ input.leaf.elems = <<AdItem, Without(FullItem("d"), "lengthText")>>
    /\ Len(ret.val) = 1
    /\ ret.val[1].id = "d"
    /\ ret.val[1].duration = "LIVE"
    /\ ret.val[1].published = "1 day ago"

\* C25: both parsers return the empty sequence when a step of the nested path
\* to the item list is absent or the node at its end is not a list.
BrokenPathIsEmpty ==
    /\ (Parsed("parse_search_results") /\ ~HoldsItems) => ret.val = <<>>
    /\ (Parsed("parse_channel_results") /\ ~HoldsItems) => ret.val = <<>>

\* the list of items sits one step short of the end of the path
BrokenPathWitness ==
    /\ Parsed("parse_search_results")
    /\ input.depth = Len(ItemsPath) - 1
    /\ input.leaf = JArr(<<FullItem("a")>>)
    /\ ret.val = <<>>

(***************************************************************************)
(* load_subscriptions applied to whatever the subscription file holds: the *)
(* file is in the user's configuration directory and may have been written *)
(* by any editor.                                                          *)
(***************************************************************************)
MaxText == 4       \* longest subscription file read, in characters

Texts == UNION {[1..n -> {"n", TAB, NL}] : n \in 0..MaxText}

SubsFiles == {SMissing, SBytes} \cup {SText(text) : text \in Texts}

InitLoad ==
    /\ InitOther
    /\ app = AppIdle
    /\ max_entries = MaxM
    /\ store = Missing
    /\ entries = <<>>
    /\ subs_file \in SubsFiles
    /\ input = NoInput

SpecLoad == InitLoad /\ [][LoadSubscriptions]_vars

(***************************************************************************)
(* Subscription load claim.                                                *)
(***************************************************************************)
\* the records as lines again
AsLines(subs) == [i \in 1..Len(subs) |-> FormatLine(subs[i])]

\* C26: load_subscriptions never fails on file content: a line without a tab
\* is skipped, every other line yields one record (name before the first tab,
\* handle after it) in file order, and a missing file yields the empty list.
LoadSubscriptionsTotal ==
    ret.op = "load_subscriptions"
    => /\ ret.res = "Ok"
       /\ subs_file.kind = "missing" => ret.val = <<>>
       /\ subs_file.kind = "text"
            => /\ AsLines(ret.val) = SelectSeq(Lines(subs_file.text), HasTwoParts)
               /\ \A i \in 1..Len(ret.val) : IndexOf(ret.val[i].name, TAB) = 0

(***************************************************************************)
(* The cache keys of two calls, computed as search_videos and              *)
(* fetch_channel_videos compute them.  SHA-256 is taken to be free of      *)
(* collisions: get_cache_key is modelled as an injection.                  *)
(***************************************************************************)
\* queries and handles, some with the separator or a digit in them
KeyArgs == {"x", "x:1", "x1", "1", "x:1:2"}
KeyLimits == {1, 2, 12}

Triples == Kinds \X KeyArgs \X KeyLimits

KeyInputs == {[fn |-> "get_cache_key", a |-> a, b |-> b] : a \in Triples, b \in Triples}

InitKeys ==
    /\ InitOther
    /\ app = AppIdle
    /\ max_entries = MaxM
    /\ store = Missing
    /\ entries = <<>>
    /\ subs_file = SMissing
    /\ input \in KeyInputs

\* the keys of the two calls
GetCacheKeys ==
    /\ input.fn = "get_cache_key"
    /\ ret' = Call("get_cache_key", "", 0, "Ok",
                   <<get_cache_key(LogicalKey(input.a[1], input.a[2], input.a[3])),
                     get_cache_key(LogicalKey(input.b[1], input.b[2], input.b[3]))>>, FALSE)
    /\ UNCHANGED <<now, store, hvars, cvars, ovars>>

SpecKeys == InitKeys /\ [][GetCacheKeys]_vars

(***************************************************************************)
(* Cache key claim.                                                        *)
(***************************************************************************)
\* C27: cache keys are deterministic and namespaced: equal (kind, argument,
\* limit) triples give equal keys and different triples give different keys,
\* also when the argument contains ':', so a result cached for one triple is
\* never the entry looked up for another.
KeysDistinguishCalls ==
    ret.op = "get_cache_key"
    => /\ input.a = input.b => ret.val[1] = ret.val[2]
       /\ input.a # input.b => ret.val[1] # ret.val[2]

\* a query that ends in ":1" with limit 2, and the query without it
KeysWitness ==
    /\ ret.op = "get_cache_key"
    /\ input.a = <<"video", "x:1", 2>>
    /\ input.b = <<"video", "x", 12>>
    /\ ret.val[1] # ret.val[2]

(***************************************************************************)
(* clear_cache claim.                                                      *)
(***************************************************************************)
\* C28: clear_cache removes only cache entries: the history store and the
\* subscription store hold after it what they held before, so a load after
\* clear_cache gives the entries persisted before it.
ClearCacheKeepsHistory ==
    [][(ret'.op = "clear_cache" /\ \E r \in Removals : ClearCache(r[1], r[2]))
       => (store' = store /\ subs_file' = subs_file)]_vars

(***************************************************************************)
(* get_cached in one process while another calls set_cache on the same     *)
(* directory, with no lock: the reader's read and expiry test              *)
(* (cache.rs:34-39) and its fs::remove_file (cache.rs:41) are separate     *)
(* steps, and the writer may run between them.                             *)
(***************************************************************************)
\* exists, read_to_string, from_str and the expiry test: the reader returns,
\* or has found an expired entry and goes on to remove the file
ReaderRead(key) ==
    LET d == DeserializeCacheEntry(cache[key])
        g == get_cached(cache[key], now)
    IN  /\ reader.pc = "idle"
        /\ IF cache[key].kind # "missing" /\ d.ok /\ Expired(d.entry, now)
           THEN /\ reader' = [pc |-> "expired", key |-> key]
                /\ UNCHANGED ret
           ELSE /\ ret' = Call("get_cached", key, 0, IF g.some THEN "Some" ELSE "None",
                               g.data, FALSE)
                /\ UNCHANGED reader
        /\ UNCHANGED <<now, store, hvars, cvars, subs_file, rvars, feed, pending, input, play, app>>

\* let _ = fs::remove_file(&path).await; None
ReaderRemove ==
    /\ reader.pc = "expired"
    /\ cache' = [cache EXCEPT ![reader.key] = CMissing]
    /\ ret' = Call("get_cached", reader.key, 0, "None", <<>>, FALSE)
    /\ reader' = ReaderIdle
    /\ UNCHANGED <<now, store, hvars, fetches, subs_file, rvars, feed, pending, input, play, app>>

NextCacheRace ==
    \/ \E key \in ApiKeys : ReaderRead(key)
    \/ ReaderRemove
    \/ \E key \in ApiKeys, data \in DataValues, io \in WriteOutcomes : SetCache(key, data, io)
    \/ \E d \in {DEFAULT_TTL, DEFAULT_TTL + 1} : TickTtl(d)

SpecCacheRace == InitCache /\ [][NextCacheRace]_vars

(***************************************************************************)
(* Cache race claim.                                                       *)
(***************************************************************************)
\* C29: get_cached deletes a cache file only when the entry in the file at
\* the moment of deletion is expired: a fresh entry written by a concurrent
\* set_cache is never removed by the reader's expiry clean-up.
ExpiryRemovesOnlyExpired ==
    [][(reader.pc = "expired" /\ ReaderRemove) => ~Fresh(cache[reader.key], now)]_vars

(***************************************************************************)
(* One invocation of main from the selection of a video on: the Play state *)
(* (main.rs:301-367).  play.log lists, in order, what the invocation did:  *)
(* the history.add calls and the launches of external tools.               *)
(***************************************************************************)
\* cli.download, cli.syncplay, or neither (main.rs:320-326)
Actions == {"stream", "download", "syncplay"}

\* the state main goes to when history.add has returned
AfterAddIgnoringError(io) == "added"

\* history.add(video).await?: an error ends main
AfterAdd(io) == IF io = "ok" THEN "added" ELSE "failed"

\* selector.select(..) in Search, History or Feed: a video or none, with the
\* command line's options
SelectVideo(selection, copy_url, action) ==
    /\ play.pc = "idle"
    /\ play' = [play EXCEPT !.pc = IF selection = <<>> THEN "exit" ELSE "play",
                            !.selected_video = selection,
                            !.copy_url = copy_url,
                            !.action = action]
    /\ UNCHANGED <<now, store, hvars, ret, cvars, subs_file, rvars, feed,
                   pending, input, reader, app>>

\* history.add(video).await? (main.rs:310)
PlayAdd(io) ==
    LET video == play.selected_video[1]
    IN  /\ play.pc = "play"
        /\ entries' = AddEntries(entries, video, now, max_entries)
        /\ store' = SaveResult(store, entries', io)
        /\ ret' = Ret("add", IF io = "ok" THEN "Ok" ELSE "Err", <<>>)
        /\ tracked' = (tracked /\ io = "ok" /\ \A i \in 1..Len(added) : added[i] # video.id)
        /\ added' = IF tracked' THEN Append(added, video.id) ELSE <<>>
        /\ play' = [play EXCEPT
                      !.pc = AfterAdd(io),
                      !.log = Append(@, [ev |-> "add", tool |-> "history", id |-> video.id,
                                         ok |-> io = "ok"])]
        /\ UNCHANGED <<now, max_entries, cvars, subs_file, rvars, feed,
                       pending, input, reader, app>>

\* the rest of the Play state: the URL is printed, or the player, the
\* downloader or syncplay is launched on it; a launch that fails is reported
\* and main exits all the same
PlayLaunch(ok) ==
    /\ play.pc = "added"
    /\ play.copy_url => ok
    /\ play' = [play EXCEPT
                  !.pc = "exit",
                  !.log = IF play.copy_url THEN @
                          ELSE Append(@, [ev |-> "launch", tool |-> play.action,
                                          id |-> play.selected_video[1].id, ok |-> ok])]
    /\ UNCHANGED <<now, store, hvars, ret, cvars, subs_file, rvars, feed,
                   pending, input, reader, app>>

NextPlay ==
    \/ \E selection \in {<<>>} \cup {<<v>> : v \in Videos}, copy_url \in BOOLEAN,
          action \in Actions : SelectVideo(selection, copy_url, action)
    \/ \E io \in SaveOutcomes : PlayAdd(io)
    \/ \E ok \in BOOLEAN : PlayLaunch(ok)

SpecPlay == Init /\ [][NextPlay]_vars

(***************************************************************************)
(* Play claim.                                                             *)
(***************************************************************************)
\* the video is the first entry of the history, in memory and in the store
Recorded(video) ==
    /\ entries # <<>>
    /\ entries[1].video = video
    /\ from_str_or_default(store) # <<>>
    /\ from_str_or_default(store)[1].video = video

\* every launch comes after a successful history.add of the same video, and
\* after a failed history.add nothing is launched
LaunchOnlyAfterAdd ==
    /\ \A i \in 1..Len(play.log) :
          play.log[i].ev = "launch"
          => \E j \in 1..(i - 1) :
                /\ play.log[j].ev = "add"
                /\ play.log[j].ok
                /\ play.log[j].id = play.log[i].id
    /\ \A j \in 1..Len(play.log) :
          (play.log[j].ev = "add" /\ ~play.log[j].ok)
          => \A i \in 1..Len(play.log) : play.log[i].ev # "launch"

\* C30 as stated: in one invocation every launch of the player, the
\* downloader or syncplay for a video is preceded by a successful history.add
\* of that video; when history.add fails nothing is launched; and a selected
\* video is recorded in history also if --copy-url is set or the launch fails.
PlayRecordsSelection ==
    /\ LaunchOnlyAfterAdd
    /\ (play.pc = "exit" /\ play.selected_video # <<>>)
          => Recorded(play.selected_video[1])

\* C30, amended: the same, the recording being claimed where the configured
\* maximum is at least 1 (with a maximum of 0 a successful add keeps nothing).
PlayRecordsSelectionWithinMaximum ==
    /\ LaunchOnlyAfterAdd
    /\ (play.pc = "exit" /\ play.selected_video # <<>> /\ max_entries >= 1)
          => Recorded(play.selected_video[1])

\* the launch failed and the video is in the history all the same
PlayWitness ==
    /\ play.pc = "exit"
    /\ max_entries >= 1
    /\ Len(play.log) = 2
    /\ play.log[1].ev = "add" /\ play.log[1].ok
    /\ play.log[2].ev = "launch" /\ ~play.log[2].ok
    /\ Recorded(play.selected_video[1])

(***************************************************************************)
(* Cache frame claim.                                                      *)
(***************************************************************************)
\* a step of a search operation that sent its request and ended in a network
\* error, a parse error, NoResults or an empty success (only the search
\* operations send requests, and the call is in ret')
FailedSearch ==
    /\ fetches' = fetches + 1
    /\ ret'.op \in {"search_videos", "fetch_channel_videos", "search_channels"}
    /\ \/ ret'.res \in {"Http", "Network", "YouTubeParse", "NoResults"}
       \/ ret'.res = "Ok" /\ ret'.val = <<>>

\* the key the call in ret' looks up, if it looks one up
LookupKey ==
    IF ret'.op = "search_videos" THEN {VideoKey(ret'.arg, ret'.limit)}
    ELSE IF ret'.op = "fetch_channel_videos" THEN {ChannelKey(ret'.arg, ret'.limit)}
    ELSE {}

\* every entry in the cache holds between 1 and its key's limit items
EntrySizes ==
    \A kind \in Kinds, q \in Args, l \in Limits :
       LET file == cache[get_cache_key(LogicalKey(kind, q, l))]
       IN  file.kind = "json" => (1 <= Len(file.doc.data) /\ Len(file.doc.data) <= l)

\* C32 as stated: a search operation that ends in a network error, a parse
\* error, NoResults or an empty success leaves the cache store as it was;
\* hence every entry the search operations write holds 1 to limit items.
FailedSearchLeavesCache ==
    [][FailedSearch => cache' = cache]_vars /\ []EntrySizes

\* C32, amended: such a call writes nothing: the cache store is as it was but
\* for the expired entry under the call's own key, which the lookup removed;
\* every entry the search operations write holds 1 to limit items.
FailedSearchWritesNothing ==
    /\ [][FailedSearch =>
            \A k \in CacheKeys :
               \/ cache'[k] = cache[k]
               \/ /\ k \in LookupKey
                  /\ cache[k].kind = "json"
                  /\ ~Fresh(cache[k], now)
                  /\ cache'[k] = CMissing]_vars
    /\ []EntrySizes

\* a search that found nothing, made after a channel's videos were cached:
\* that entry stands and nothing was written under the search's key
FailedSearchWitness ==
    /\ ret.op = "search_videos"
    /\ ret.res = "NoResults"
    /\ fetches = 2
    /\ cache[ChannelKey("x", 1)].kind = "json"
    /\ cache[VideoKey(ret.arg, ret.limit)].kind = "missing"

(***************************************************************************)
(* History error claim.                                                    *)
(***************************************************************************)
\* C33: when History.add or History.clear returns an error, the list given
\* by get_all() is the same as before the call: memory and the backing store
\* do not diverge on a failed persist or a failed delete.
FailedCallKeepsMemory ==
    [][( /\ ret'.res = "Err"
         /\ ret'.op \in {"add", "clear"}
         /\ \/ \E video \in Videos, io \in SaveOutcomes : Add(video, io)
            \/ \E removed \in BOOLEAN : Clear(removed) )
       => get_all(entries', store') = get_all(entries, store)]_vars

(***************************************************************************)
(* Subscription round-trip claim.                                          *)
(***************************************************************************)
\* C34: save_subscriptions followed by load_subscriptions returns the list
\* that was saved (same names, same handles, same order), also for a list
\* whose names or handles contain a tab: here for every list add_subscription
\* saves with success.
SubscriptionRoundTrip ==
    [][( /\ ret'.op = "add_subscription"
         /\ ret'.res = "Ok"
         /\ AddSubscription(ret'.arg, "ok") )
       => load_subscriptions(subs_file')
             = AddedSubs(load_subscriptions(subs_file), ret'.arg)]_vars

(***************************************************************************)
(* The state machine of main (main.rs:118-371): one action for each arm of *)
(* the match, run as a whole.  app.entered lists the states in the order   *)
(* they were entered, the initial one first; app.result becomes "err"      *)
(* when main returns an error through a ? operator.                        *)
(***************************************************************************)
\* determine_initial_state(&cli)
determine_initial_state(cli) ==
    IF cli.history THEN "History"
    ELSE IF cli.feed THEN "Feed"
    ELSE IF cli.subscribe THEN "Subscribe"
    ELSE IF cli.query # "" THEN "Search"
    ELSE "Init"

\* the command lines main is started with
Clis ==
    [history : BOOLEAN, feed : BOOLEAN, subscribe : BOOLEAN, query : {"", "x"},
     copy_url : BOOLEAN, action : Actions, limit : {2}]

\* main when the loop is entered
Started(cli) ==
    [state |-> determine_initial_state(cli), cli |-> cli, selected_video |-> <<>>,
     entered |-> <<determine_initial_state(cli)>>, result |-> "running"]

\* state = next
Enter(a, next) == [a EXCEPT !.state = next, !.entered = Append(@, next)]

\* what the prompt of dialoguer::Input may give: an error, nothing, a query
Prompts == {"err", "", "x"}

\* the state after Subscribe
AfterSubscribeSearching == "Search"

AfterSubscribe == "Exit"

\* state = if selected_video.is_some() { Play } else { Exit }, over the menu
\* of items, pick = 0 standing for no selection
Selected(a, items, pick) ==
    IF pick = 0 THEN Enter(a, "Exit")
    ELSE Enter([a EXCEPT !.selected_video = <<items[pick]>>], "Play")

\* the text of a name or a handle taken from a page; those of the pages
\* enumerated hold no tab and no line break, and such a text is kept whole
Chars(str) == <<str>>

\* load_subscriptions().await? in the Feed arm, when it returns
FeedSubs == IF LoadFails(subs_file) THEN <<>> ELSE load_subscriptions(subs_file)

RECURSIVE FeedFold(_, _, _, _)
\* for sub in &subs { match fetch_channel_videos(&sub.handle, 5) ... }
FeedFold(c, t, subs, answers) ==
    IF subs = <<>> THEN [cache |-> c, fetched |-> 0, all_videos |-> <<>>]
    ELSE LET r == fetch_channel_videos(c, t, Str(Head(subs).handle), FeedLimit,
                                       Head(answers)[1], Head(answers)[2])
             rest == FeedFold(r.cache, t, Tail(subs), Tail(answers))
         IN  [cache |-> rest.cache,
              fetched |-> r.fetched + rest.fetched,
              all_videos |-> (IF r.res = "Ok" THEN r.val ELSE <<>>) \o rest.all_videos]

Running(st) == app.state = st /\ app.result = "running"

\* AppState::Init: the main menu
MainInit(choice) ==
    /\ Running("Init")
    /\ app' = Enter(app, choice)
    /\ UNCHANGED <<now, store, hvars, ret, cvars, subs_file, rvars, feed,
                   pending, input, reader, play>>

\* AppState::Search
MainSearch(prompt, page, io, pick) ==
    LET search_query == IF app.cli.query = "" THEN prompt ELSE app.cli.query
        r == search_videos(cache, now, search_query, app.cli.limit, page, io)
    IN  /\ Running("Search")
        /\ IF search_query \in {"err", ""}
           THEN /\ app' = IF search_query = "err" THEN [app EXCEPT !.result = "err"]
                          ELSE Enter(app, "Exit")
                /\ UNCHANGED <<ret, cvars>>
           ELSE /\ cache' = r.cache
                /\ fetches' = fetches + r.fetched
                /\ ret' = [Call("search_videos", search_query, app.cli.limit,
                                r.res, r.val, r.wrote) EXCEPT !.ran = r.ran]
                /\ pick \in 0..Len(r.val)
                /\ app' = IF r.res = "Ok" THEN Selected(app, r.val, pick)
                          ELSE Enter(app, "Exit")
        /\ UNCHANGED <<now, store, hvars, subs_file, rvars, feed,
                       pending, input, reader, play>>

\* AppState::History
MainHistory(pick) ==
    LET shown == [i \in 1..Len(get_all(entries, store)) |-> get_all(entries, store)[i].video]
    IN  /\ Running("History")
        /\ pick \in 0..Len(shown)
        /\ app' = IF shown = <<>> THEN Enter(app, "Exit") ELSE Selected(app, shown, pick)
        /\ UNCHANGED <<now, store, hvars, ret, cvars, subs_file, rvars, feed,
                       pending, input, reader, play>>

\* AppState::Feed
MainFeed(answers, pick) ==
    LET subs == FeedSubs
        f == FeedFold(cache, now, subs, answers)
    IN  /\ Running("Feed")
        /\ IF LoadFails(subs_file)
           THEN /\ app' = [app EXCEPT !.result = "err"]
                /\ UNCHANGED cvars
           ELSE /\ answers \in [1..Len(subs) -> Pages \X WriteOutcomes]
                /\ cache' = f.cache
                /\ fetches' = fetches + f.fetched
                /\ pick \in 0..Len(f.all_videos)
                /\ app' = IF f.all_videos = <<>> THEN Enter(app, "Exit")
                          ELSE Selected(app, f.all_videos, pick)
        /\ UNCHANGED <<now, store, hvars, ret, subs_file, rvars, feed,
                       pending, input, reader, play>>

\* AppState::Subscribe
MainSubscribe(prompt, page, pick, io) ==
    LET r == search_channels(cache, now, prompt, 10, page)
        channel == r.val[pick]
        sub == Subscription(Chars(channel.name), Chars(channel.handle))
        added_subs == AddedSubs(load_subscriptions(subs_file), sub)
    IN  /\ Running("Subscribe")
        /\ io \in WriteOutcomes
        /\ IF prompt \in {"err", ""}
           THEN /\ app' = IF prompt = "err" THEN [app EXCEPT !.result = "err"]
                          ELSE Enter(app, "Exit")
                /\ UNCHANGED <<ret, fetches, subs_file>>
           ELSE /\ fetches' = fetches + r.fetched
                /\ ret' = [Call("search_channels", prompt, 10, r.res, r.val, r.wrote)
                             EXCEPT !.ran = r.ran]
                /\ pick \in 0..Len(r.val)
                /\ IF r.res = "Ok" /\ pick # 0 /\ ~LoadFails(subs_file)
                   THEN \E n \in Cuts(SubscriptionsContent(added_subs), io) :
                           subs_file' = add_subscription(subs_file, sub, io, n)
                   ELSE UNCHANGED subs_file
                /\ app' = Enter(app, AfterSubscribe)
        /\ UNCHANGED <<now, store, hvars, cache, rvars, feed, pending, input, reader, play>>

\* AppState::Play: history.add, then the URL or the launch
MainPlay(io, ok) ==
    LET video == app.selected_video[1]
    IN  /\ Running("Play")
        /\ IF app.selected_video = <<>>
           THEN /\ app' = Enter(app, "Exit")
                /\ UNCHANGED <<store, hvars, ret>>
           ELSE /\ entries' = AddEntries(entries, video, now, max_entries)
                /\ store' = SaveResult(store, entries', io)
                /\ ret' = Ret("add", IF io = "ok" THEN "Ok" ELSE "Err", <<>>)
                /\ tracked' = (tracked /\ io = "ok"
                               /\ \A i \in 1..Len(added) : added[i] # video.id)
                /\ added' = IF tracked' THEN Append(added, video.id) ELSE <<>>
                /\ UNCHANGED max_entries
                /\ app' = IF AfterAdd(io) = "failed" THEN [app EXCEPT !.result = "err"]
                          ELSE Enter(app, "Exit")
        /\ UNCHANGED <<now, cvars, subs_file, rvars, feed, pending, input, reader, play>>

\* a history of one entry and a subscription file of one record, left by
\* earlier runs
OldHistory == Json(to_string_pretty(<<HistoryEntry(Vid("a", "A"), 0)>>))
OldSubscriptions == SText(SubscriptionsContent(<<Subscription(<<"n">>, <<"a">>)>>))

\* main at the head of its loop: the configuration and the history loaded
InitMain ==
    /\ InitOther
    /\ max_entries = MaxM
    /\ store \in {Missing, OldHistory}
    /\ entries = load(store, <<>>).entries
    /\ subs_file \in {SMissing, SBytes, OldSubscriptions}
    /\ input = NoInput
    /\ app \in {Started(cli) : cli \in Clis}

NextMain ==
    \/ \E choice \in {"Search", "History", "Subscribe", "Feed", "Exit"} : MainInit(choice)
    \/ \E prompt \in Prompts, page \in Pages, io \in WriteOutcomes, pick \in 0..MaxItems :
          MainSearch(prompt, page, io, pick)
    \/ \E pick \in 0..MaxM : MainHistory(pick)
    \/ \E answers \in [1..Len(FeedSubs) -> Pages \X WriteOutcomes], pick \in 0..FeedLimit :
          MainFeed(answers, pick)
    \/ \E prompt \in Prompts, page \in Pages, pick \in 0..MaxItems, io \in WriteOutcomes :
          MainSubscribe(prompt, page, pick, io)
    \/ \E io \in SaveOutcomes, ok \in BOOLEAN : MainPlay(io, ok)

\* the loop runs an arm whenever one can run
SpecMain == InitMain /\ [][NextMain]_vars /\ WF_vars(NextMain)

\* the Subscribe arm runs
SubscribeStep == app.state = "Subscribe" /\ app' # app

\* at most three transitions were made, no state was entered twice, Play was
\* entered at most once and never in a run that entered Subscribe
MainLoopBounded ==
    /\ Len(app.entered) <= 4
    /\ \A i, j \in 1..Len(app.entered) : i # j => app.entered[i] # app.entered[j]
    /\ Cardinality({i \in 1..Len(app.entered) : app.entered[i] = "Play"}) <= 1
    /\ ~\E i, j \in 1..Len(app.entered) :
          app.entered[i] = "Subscribe" /\ app.entered[j] = "Play"

\* C31, as stated: from every initial state and for every outcome of
\* selection, search and playback the loop makes at most three transitions,
\* enters no state twice and Play at most once, the Subscribe state goes to
\* Exit without entering Play or changing the history, and Exit is reached.
MainReachesExit ==
    /\ []MainLoopBounded
    /\ [][SubscribeStep => /\ app'.state = "Exit"
                           /\ app'.selected_video = <<>>
                           /\ entries' = entries
                           /\ store' = store]_vars
    /\ <>(app.state = "Exit")

\* C31, amended: the loop makes at most three transitions, enters no state
\* twice and Play at most once, the Subscribe state goes to Exit or ends main
\* with the error of its prompt, without entering Play or changing the
\* history, and the loop ends: Exit is reached or main returns the error of a
\* failed prompt, load_subscriptions or history.add.
MainLoopEnds ==
    /\ []MainLoopBounded
    /\ [][SubscribeStep => /\ \/ app'.state = "Exit"
                              \/ app'.state = "Subscribe" /\ app'.result = "err"
                           /\ app'.selected_video = <<>>
                           /\ entries' = entries
                           /\ store' = store]_vars
    /\ <>(app.state = "Exit" \/ app.result = "err")

\* Exit was reached through the menu, a search and a playback that recorded
\* the selected video
MainWitness ==
    /\ app.state = "Exit"
    /\ app.entered = <<"Init", "Search", "Play", "Exit">>
    /\ app.result = "running"
    /\ entries # <<>>
    /\ entries[1].video = app.selected_video[1]

====
